---- MODULE Spec2Model ----
(***************************************************************************)
(* A model of the roguie simulation core: the RunState machine of          *)
(* State::tick, the system pipeline of State::run_systems, the component   *)
(* stores the systems read and write, and the Map resource.                *)
(***************************************************************************)
EXTENDS Integers, Sequences, FiniteSets, TLC

\* ------------------------------------------------------------------ bounds

\* The modelled map is MAP_WIDTH x MAP_HEIGHT tiles (80 x 43 in map.rs).
MAP_WIDTH == 5
MAP_HEIGHT == 5
\* Number of key presses handled in AwaitingInput along one behaviour.
MaxTurns == 2
\* The dice rolled for one entity in one visibility pass are counted up to
\* MaxRolls.
MaxRolls == 2
\* The width and height of the maps the cellular automata builder is run on
CaveWidth == 6
CaveHeight == 6
\* The width and height of the maps the room-and-corridor generator is run on
RoomsWidth == 11
RoomsHeight == 15
\* The width and height of the maps the BSP dungeon builder is run on
BspWidth == 11
BspHeight == 17

\* -------------------------------------------------------- program constants

PlayerMaxHp == 30
PlayerDefense == 2
PlayerPower == 5
MonsterMaxHp == 16
MonsterDefense == 1
MonsterPower == 4
ViewRange == 8
BearTrapDamage == 6
BearTrapRevealChance == 36
DaggerPower == 2
TowerShieldDefense == 3
PeriodicTrapDamage == 6
PeriodicTrapPeriod == 4

\* ------------------------------------------------------------------ helpers

Min(a, b) == IF a < b THEN a ELSE b
Max(a, b) == IF a > b THEN a ELSE b
Abs(a) == IF a < 0 THEN -a ELSE a

RECURSIVE SumSeq(_)
SumSeq(s) == IF s = <<>> THEN 0 ELSE Head(s) + SumSeq(Tail(s))

RECURSIVE SetToSeq(_)
\* The members of a set of entity ids in increasing order: the order in which
\* a join over the entity store visits them.
SetToSeq(S) ==
    IF S = {} THEN <<>>
    ELSE LET m == CHOOSE x \in S : \A y \in S : x <= y
         IN <<m>> \o SetToSeq(S \ {m})

Range(s) == {s[i] : i \in DOMAIN s}

\* A component store: a function whose domain is the set of entities that
\* carry the component.
Put(store, e, v) == [x \in (DOMAIN store) \cup {e} |-> IF x = e THEN v ELSE store[x]]
Drop(store, S) == [x \in (DOMAIN store) \ S |-> store[x]]
Empty == [x \in {} |-> 0]

Pt(x, y) == [x |-> x, y |-> y]

\* ---------------------------------------------------------------- the map

MAP_COUNT == MAP_HEIGHT * MAP_WIDTH
Idxs == 0 .. (MAP_COUNT - 1)

\* Map::xy_idx
xy_idx(x, y) == (y * MAP_WIDTH) + x

IdxX(idx) == idx % MAP_WIDTH
IdxY(idx) == idx \div MAP_WIDTH

\* TileType
Wall == "Wall"
Floor == "Floor"
DownStairs == "DownStairs"

InMap(x, y) == x >= 0 /\ x < MAP_WIDTH /\ y >= 0 /\ y < MAP_HEIGHT

\* The tile array a map builder hands over (MapBuilder::get_map): a walled
\* room with one pillar and the stairs in the far corner.
LevelTiles ==
    [idx \in Idxs |->
        LET x == IdxX(idx)
            y == IdxY(idx)
        IN IF x = 0 \/ y = 0 \/ x = MAP_WIDTH - 1 \/ y = MAP_HEIGHT - 1 THEN Wall
           ELSE IF x = 2 /\ y = 2 THEN Wall
           ELSE IF x = MAP_WIDTH - 2 /\ y = MAP_HEIGHT - 2 THEN DownStairs
           ELSE Floor]

\* MapBuilder::get_starting_position
StartingPosition == Pt(1, 1)

\* A fresh Map as the builders make it (Map::new_map_rooms_and_corridors
\* shows the field values): nothing revealed, visible or blocked, an empty
\* tile_content list per tile.  Vec<bool> fields are held as the set of
\* indices that are true.
NewMap(new_depth) ==
    [tiles |-> LevelTiles,
     width |-> MAP_WIDTH,
     height |-> MAP_HEIGHT,
     revealed_tiles |-> {},
     visible_tiles |-> {},
     blocked |-> {},
     tile_content |-> [idx \in Idxs |-> <<>>],
     depth |-> new_depth]

\* Map::populate_blocked
populate_blocked(m) ==
    [m EXCEPT !.blocked = {idx \in Idxs : m.tiles[idx] = Wall}]

\* Map::clear_content_index
clear_content_index(m) ==
    [m EXCEPT !.tile_content = [idx \in Idxs |-> <<>>]]

\* is_exit_valid without the look at the blocked flags
is_exit_valid_unblocked(m, x, y) ==
    ~(x < 1 \/ x > m.width - 1 \/ y < 1 \/ y > m.height - 1)

\* Map::is_exit_valid
is_exit_valid(m, x, y) ==
    IF x < 1 \/ x > m.width - 1 \/ y < 1 \/ y > m.height - 1 THEN FALSE
    ELSE (y * m.width) + x \notin m.blocked

\* BaseMap::is_opaque
is_opaque(m, idx) == m.tiles[idx] = Wall

\* BaseMap::get_available_exits: the set of <<tile index, cost>> pairs, the
\* costs 1.0 and 1.45 held in hundredths.
get_available_exits(m, idx) ==
    LET x == idx % m.width
        y == idx \div m.width
        w == m.width
    IN  (IF is_exit_valid(m, x - 1, y) THEN {<<idx - 1, 100>>} ELSE {})
        \cup (IF is_exit_valid(m, x + 1, y) THEN {<<idx + 1, 100>>} ELSE {})
        \cup (IF is_exit_valid(m, x, y - 1) THEN {<<idx - w, 100>>} ELSE {})
        \cup (IF is_exit_valid(m, x, y + 1) THEN {<<idx + w, 100>>} ELSE {})
        \cup (IF is_exit_valid(m, x - 1, y - 1) THEN {<<(idx - w) - 1, 145>>} ELSE {})
        \cup (IF is_exit_valid(m, x + 1, y - 1) THEN {<<(idx - w) + 1, 145>>} ELSE {})
        \cup (IF is_exit_valid(m, x - 1, y + 1) THEN {<<(idx + w) - 1, 145>>} ELSE {})
        \cup (IF is_exit_valid(m, x + 1, y + 1) THEN {<<(idx + w) + 1, 145>>} ELSE {})

\* ------------------------------------------------- geometry (rltk library)

DistSq(p, q) == ((p.x - q.x) * (p.x - q.x)) + ((p.y - q.y) * (p.y - q.y))

\* The distance test with the threshold 1.0 in place of 1.5
DistanceBelow1_0(p, q) == DistSq(p, q) < 1

\* DistanceAlg::Pythagoras.distance2d(p, q) < 1.5, on integer coordinates
DistanceBelow1_5(p, q) == 4 * DistSq(p, q) < 9

\* The tiles strictly between p and q on the straight line joining them.
LineBetween(p, q) ==
    LET dx == q.x - p.x
        dy == q.y - p.y
        n == Max(Abs(dx), Abs(dy))
    IN {t \in Idxs :
          LET tx == IdxX(t)
              ty == IdxY(t)
          IN /\ Pt(tx, ty) # p
             /\ Pt(tx, ty) # q
             /\ tx >= Min(p.x, q.x) /\ tx <= Max(p.x, q.x)
             /\ ty >= Min(p.y, q.y) /\ ty <= Max(p.y, q.y)
             /\ 2 * Abs(((tx - p.x) * dy) - ((ty - p.y) * dx)) < n}

\* rltk::field_of_view: the points within `range` of `p` that a straight line
\* from p reaches before passing an opaque tile (the opaque tile that stops a
\* line is itself seen).
shadow_cast(p, range, m) ==
    {q \in {Pt(IdxX(i), IdxY(i)) : i \in Idxs} :
        /\ DistSq(p, q) <= range * range
        /\ \A t \in LineBetween(p, q) : ~is_opaque(m, t)}

\* The fields of view on the tiles of the level, for the view range of the
\* spawner, computed once
LevelFov ==
    [i \in Idxs |->
        shadow_cast(Pt(IdxX(i), IdxY(i)), ViewRange, [tiles |-> LevelTiles])]

\* rltk::field_of_view(p, range, map)
field_of_view(p, range, m) ==
    IF m.tiles = LevelTiles /\ range = ViewRange /\ InMap(p.x, p.y)
    THEN LevelFov[xy_idx(p.x, p.y)]
    ELSE shadow_cast(p, range, m)

Infinity == MAP_COUNT * 1000

RECURSIVE PathCost(_, _, _)
\* Least cost from every tile to `goal` over get_available_exits: the
\* fixpoint of relaxing every tile against its exits.
PathCost(m, goal, d) ==
    LET step == [i \in Idxs |->
                   IF i = goal THEN 0
                   ELSE LET via == {e[2] + d[e[1]] : e \in get_available_exits(m, i)}
                        IN IF via = {} THEN Infinity
                           ELSE Min(Infinity, CHOOSE c \in via : \A c2 \in via : c <= c2)]
    IN IF step = d THEN d ELSE PathCost(m, goal, step)

\* rltk::a_star_search(start, end, map): the tiles that can be steps[1] of a
\* least-cost path; empty when the search fails or the path has one step.
a_star_second_steps(start, end, m) ==
    LET d == PathCost(m, end, [i \in Idxs |-> IF i = end THEN 0 ELSE Infinity])
    IN IF start = end \/ d[start] >= Infinity THEN {}
       ELSE {e[1] : e \in {e \in get_available_exits(m, start) : e[2] + d[e[1]] = d[start]}}

\* ------------------------------------------------------------------- state

VARIABLES
    ecs,            \* the World's entity set and component storages
    map,            \* the Map resource
    runstate,       \* the RunState resource
    player_pt,      \* the Point resource (player position)
    player_entity,  \* the Entity resource (player entity)
    gamelog,        \* GameLog entries appended since the current tick began
    pc,             \* where State::tick stands: "tick" between two ticks, else
                    \* the system of run_systems that runs next
    newrunstate,    \* tick's local: the run state the tick started in
    ran,            \* the systems the current tick has run so far, in order
    turns,          \* key presses handled so far
    rolls,          \* the dice VisibilitySystem rolled in its latest pass, per
                    \* entity rolled for
    builder,        \* the MapBuilder that is building a map
    savegame        \* the file ./savegame.json: None, or what save_game wrote

vars == <<ecs, map, runstate, player_pt, player_entity, gamelog, pc, newrunstate,
          ran, turns, rolls, builder, savegame>>

\* The variables of the game, and those of map building
game_vars == <<ecs, map, runstate, player_pt, player_entity, gamelog, pc, newrunstate,
               ran, turns, rolls, savegame>>

\* Option<T>: None is the empty set, Some(v) the set holding v.
None == {}
Some(v) == {v}
TheSome(o) == CHOOSE v \in o : TRUE

\* RunState values
RS(n) == [name |-> n]
MagicMapReveal(row) == [name |-> "MagicMapReveal", row |-> row]
MainMenu(sel) == [name |-> "MainMenu", menu_selection |-> sel]

\* A tag storage of the World is held as the set of entities carrying the tag,
\* a valued storage as a function on the entities carrying the component.

\* World::delete_entity for every entity of S: the entities and all their
\* components are gone at once.
delete_entities(e, S) ==
    [entities |-> e.entities \ S,
     killed |-> e.killed \ S,
     position |-> Drop(e.position, S),
     viewshed |-> Drop(e.viewshed, S),
     monster_ai |-> Drop(e.monster_ai, S),
     name |-> Drop(e.name, S),
     combat_stats |-> Drop(e.combat_stats, S),
     suffer_damage |-> Drop(e.suffer_damage, S),
     wants_to_melee |-> Drop(e.wants_to_melee, S),
     confusion |-> Drop(e.confusion, S),
     inflicts_damage |-> Drop(e.inflicts_damage, S),
     reveal_chance |-> Drop(e.reveal_chance, S),
     periodic_hiding |-> Drop(e.periodic_hiding, S),
     in_backpack |-> Drop(e.in_backpack, S),
     hunger_clock |-> Drop(e.hunger_clock, S),
     wants_to_pickup_item |-> Drop(e.wants_to_pickup_item, S),
     wants_to_use_item |-> Drop(e.wants_to_use_item, S),
     wants_to_drop_item |-> Drop(e.wants_to_drop_item, S),
     wants_to_remove_item |-> Drop(e.wants_to_remove_item, S),
     equipped |-> Drop(e.equipped, S),
     melee_power_bonus |-> Drop(e.melee_power_bonus, S),
     defense_bonus |-> Drop(e.defense_bonus, S),
     player |-> e.player \ S,
     blocks_tile |-> e.blocks_tile \ S,
     hidden |-> e.hidden \ S,
     entry_trigger |-> e.entry_trigger \ S,
     entity_moved |-> e.entity_moved \ S,
     single_activation |-> e.single_activation \ S,
     item |-> e.item \ S,
     consumable |-> e.consumable \ S,
     magic_mapper |-> e.magic_mapper \ S,
     serialization_helper |-> Drop(e.serialization_helper, S)]

\* World::maintain: the deletions queued with Entities::delete take effect.
maintain(e) == delete_entities(e, e.killed)

\* Entities::delete: the entity is queued for deletion at the next maintain.
entities_delete(e, S) == [e EXCEPT !.killed = @ \cup (S \cap e.entities)]

\* new_damage that stores the amount in place of what is pending
new_damage_overwrite(store, victim, amount) == Put(store, victim, <<amount>>)

\* SufferDamage::new_damage on the SufferDamage storage
new_damage(store, victim, amount) ==
    IF victim \in DOMAIN store
    THEN [store EXCEPT ![victim] = Append(@, amount)]
    ELSE Put(store, victim, <<amount>>)

\* ----------------------------------------------------------------- systems

PtIdx(p) == xy_idx(p.x, p.y)

\* The viewshed that is recomputed when dirty and left dirty
recompute_viewshed_left_dirty(e, m, ent) ==
    LET vs == e.viewshed[ent]
        pos == e.position[ent]
    IN IF vs.dirty
       THEN [vs EXCEPT !.visible_tiles =
                           {p \in field_of_view(Pt(pos.x, pos.y), vs.range, m) :
                               p.x >= 0 /\ p.x < m.width /\ p.y >= 0 /\ p.y < m.height}]
       ELSE vs

\* VisibilitySystem::run, the viewshed of one entity: recomputed and clipped
\* to the map when dirty.
recompute_viewshed(e, m, ent) ==
    LET vs == e.viewshed[ent]
        pos == e.position[ent]
    IN IF vs.dirty
       THEN [vs EXCEPT !.dirty = FALSE,
                       !.visible_tiles =
                           {p \in field_of_view(Pt(pos.x, pos.y), vs.range, m) :
                               p.x >= 0 /\ p.x < m.width /\ p.y >= 0 /\ p.y < m.height}]
       ELSE vs

\* The join (&entities, &mut viewshed, &pos) of VisibilitySystem::run
VisibilityJoin(e) == (DOMAIN e.viewshed) \cap (DOMAIN e.position)

\* The Player-tagged entities whose viewshed this pass recomputes
DirtyPlayers(e) == {ent \in VisibilityJoin(e) : e.viewshed[ent].dirty /\ ent \in e.player}

\* The tiles that any recomputed viewshed sees, the player's or not
PlayerSeenIdxs_any_entity(e, m) ==
    UNION {{PtIdx(p) : p \in recompute_viewshed(e, m, ent).visible_tiles} :
              ent \in {x \in VisibilityJoin(e) : e.viewshed[x].dirty}}

\* The tiles the recomputed player viewsheds see
PlayerSeenIdxs(e, m) ==
    UNION {{PtIdx(p) : p \in recompute_viewshed(e, m, ent).visible_tiles} :
              ent \in DirtyPlayers(e)}

\* The entities VisibilitySystem::run rolls for: on a tile the player now
\* sees according to tile_content, Hidden and with a RevealChance.
RevealCandidates(e, m) ==
    {x \in UNION {Range(m.tile_content[idx]) : idx \in PlayerSeenIdxs(e, m)} :
        x \in e.hidden /\ x \in DOMAIN e.reveal_chance}

\* How often the player part of VisibilitySystem::run comes to the roll for
\* entity x as long as x stays Hidden: the loop over the visible tiles runs
\* inside a loop over the visible tiles, and x is met once for each time
\* tile_content lists it on a visible tile.
reveal_visits(e, m, x) ==
    LET seen == PlayerSeenIdxs(e, m)
        listed(idx) == Cardinality({i \in DOMAIN m.tile_content[idx] :
                                       m.tile_content[idx][i] = x})
        RECURSIVE total(_)
        total(S) == IF S = {} THEN 0
                    ELSE LET idx == CHOOSE i \in S : TRUE
                         IN listed(idx) + total(S \ {idx})
    IN Cardinality(seen) * total(seen)

\* The outcomes of the rolls of one pass: for every entity rolled for,
\* whether a roll came up 1 and how many dice were rolled for it (no more
\* after the roll that reveals it, since that removes Hidden).
\* roll_dice(1, chance) is always 1 when chance = 1.
reveal_rolls(e, m) ==
    LET C == RevealCandidates(e, m)
        outcomes(x) ==
            {[spotted |-> TRUE, dice |-> k] :
                 k \in 1 .. (IF e.reveal_chance[x] = 1 THEN 1
                             ELSE Min(reveal_visits(e, m, x), MaxRolls))}
            \cup (IF e.reveal_chance[x] = 1 THEN {}
                  ELSE {[spotted |-> FALSE,
                         dice |-> Min(reveal_visits(e, m, x), MaxRolls)]})
    IN {o \in [C -> UNION {outcomes(x) : x \in C}] : \A x \in C : o[x] \in outcomes(x)}

\* VisibilitySystem::run, `spotted` being the entities whose roll succeeded.
VisibilitySystem(e, m, log, spotted) ==
    [ecs |-> [e EXCEPT !.viewshed =
                          [ent \in DOMAIN e.viewshed |->
                              IF ent \in VisibilityJoin(e)
                              THEN recompute_viewshed(e, m, ent)
                              ELSE e.viewshed[ent]],
                       !.hidden = @ \ spotted],
     map |-> IF DirtyPlayers(e) = {} THEN m
             ELSE [m EXCEPT !.visible_tiles = PlayerSeenIdxs(e, m),
                            !.revealed_tiles = @ \cup PlayerSeenIdxs(e, m)],
     log |-> log \o [i \in 1 .. Cardinality(spotted \cap DOMAIN e.name) |->
                        "You spotted a " \o
                        e.name[SetToSeq(spotted \cap DOMAIN e.name)[i]] \o "."]]

\* The join (&entities, &mut viewsheds, &mut ais, &mut positions) of
\* MonsterAISystem::run
MonsterJoin(e) == (DOMAIN e.viewshed) \cap (DOMAIN e.monster_ai) \cap (DOMAIN e.position)

\* The target point an unconfused monster holds after looking for the player
ai_target(e, pt, ent) ==
    IF pt \in e.viewshed[ent].visible_tiles THEN Some(pt)
    ELSE e.monster_ai[ent].target_point

\* The tiles rltk::a_star_search can return as path.steps[1] for a monster
\* that acts and is not in melee distance of its target point; {} otherwise.
ai_steps(e, m, pt, ent) ==
    IF ent \in DOMAIN e.confusion THEN {}
    ELSE LET tp == ai_target(e, pt, ent)
             pos == e.position[ent]
         IN IF tp = None THEN {}
            ELSE IF DistanceBelow1_5(Pt(pos.x, pos.y), TheSome(tp)) THEN {}
            ELSE a_star_second_steps(xy_idx(pos.x, pos.y),
                                     xy_idx(TheSome(tp).x, TheSome(tp).y), m)

\* The choices of path steps of one pass: for every monster a step of its
\* path, or -1 where the search gives none.
AIChoices(e, m, pt) ==
    LET cs == [ent \in MonsterJoin(e) |->
                  LET steps == ai_steps(e, m, pt, ent)
                  IN IF steps = {} THEN {-1} ELSE steps]
    IN {ch \in [MonsterJoin(e) -> UNION {cs[ent] : ent \in MonsterJoin(e)}] :
           \A ent \in MonsterJoin(e) : ch[ent] \in cs[ent]}

\* The countdown that removes Confusion one pass late
confusion_pass_late(store, ent) ==
    IF store[ent].turns - 1 < 0 THEN Drop(store, {ent})
    ELSE [store EXCEPT ![ent].turns = @ - 1]

\* The Confusion storage after a pass over confused `ent`: confused.turns -= 1,
\* the component removed when the counter is below 1
confusion_pass(store, ent) ==
    IF store[ent].turns - 1 < 1 THEN Drop(store, {ent})
    ELSE [store EXCEPT ![ent].turns = @ - 1]

\* The body of the loop of MonsterAISystem::run for entity `ent`; `step` is
\* path.steps[1], or -1 when the path search is not made or gives no step.
monster_act(e, m, pt, pe, ent, step) ==
    IF ent \in DOMAIN e.confusion
    THEN \* can_act = false
         [e EXCEPT !.confusion = confusion_pass(@, ent)]
    ELSE LET tp == ai_target(e, pt, ent)
             pos == e.position[ent]
             e1 == [e EXCEPT !.monster_ai[ent].target_point = tp]
         IN IF tp = None THEN e1
            ELSE IF DistanceBelow1_5(Pt(pos.x, pos.y), TheSome(tp))
            THEN [e1 EXCEPT !.wants_to_melee = Put(@, ent, [target |-> pe])]
            ELSE IF step # -1
            THEN [e1 EXCEPT !.position[ent] = Pt(step % m.width, step \div m.width),
                            !.viewshed[ent].dirty = TRUE]
            ELSE e1

RECURSIVE monster_loop(_, _, _, _, _, _)
monster_loop(e, m, pt, pe, todo, ch) ==
    IF todo = <<>> THEN e
    ELSE monster_loop(monster_act(e, m, pt, pe, Head(todo), ch[Head(todo)]),
                      m, pt, pe, Tail(todo), ch)

\* MonsterAISystem::run without the early return on the run state
MonsterAISystem_unguarded(e, m, pt, pe, rs, ch) ==
    monster_loop(e, m, pt, pe, SetToSeq(MonsterJoin(e)), ch)

\* MonsterAISystem::run, `ch` giving the path step of every monster.
MonsterAISystem(e, m, pt, pe, rs, ch) ==
    IF rs # RS("MonsterTurn") THEN e
    ELSE monster_loop(e, m, pt, pe, SetToSeq(MonsterJoin(e)), ch)

\* The inner loop body that queues the trap's damage on the trap
trigger_visit_on_trap(e, st, ent, other) ==
    IF ent # other /\ other \in e.entry_trigger
    THEN [suffer_damage |->
              IF other \in DOMAIN e.inflicts_damage
              THEN new_damage(st.suffer_damage, other, e.inflicts_damage[other])
              ELSE st.suffer_damage,
          hidden |-> st.hidden \ {other},
          remove_entities |->
              IF other \in e.single_activation
              THEN Append(st.remove_entities, other)
              ELSE st.remove_entities,
          log |-> IF other \in DOMAIN e.name
                  THEN Append(st.log, e.name[other] \o " triggers!")
                  ELSE st.log]
    ELSE st

\* The body of the inner loop of TriggerSystem::run: `ent` moved onto the tile
\* whose tile_content lists `other`.  The state threaded through the loops is
\* the SufferDamage and Hidden storages, the traps to remove and the log.
trigger_visit(e, st, ent, other) ==
    IF ent # other /\ other \in e.entry_trigger
    THEN [suffer_damage |->
              IF other \in DOMAIN e.inflicts_damage
              THEN new_damage(st.suffer_damage, ent, e.inflicts_damage[other])
              ELSE st.suffer_damage,
          hidden |-> st.hidden \ {other},
          remove_entities |->
              IF other \in e.single_activation
              THEN Append(st.remove_entities, other)
              ELSE st.remove_entities,
          log |-> IF other \in DOMAIN e.name
                  THEN Append(st.log, e.name[other] \o " triggers!")
                  ELSE st.log]
    ELSE st

RECURSIVE trigger_tile(_, _, _, _)
trigger_tile(e, st, ent, content) ==
    IF content = <<>> THEN st
    ELSE trigger_tile(e, trigger_visit(e, st, ent, Head(content)), ent, Tail(content))

RECURSIVE trigger_loop(_, _, _, _)
trigger_loop(e, m, st, todo) ==
    IF todo = <<>> THEN st
    ELSE LET ent == Head(todo)
             pos == e.position[ent]
         IN trigger_loop(e, m,
                         trigger_tile(e, st, ent, m.tile_content[xy_idx(pos.x, pos.y)]),
                         Tail(todo))

\* The end of the trigger pass without the deletion of the marked traps
trigger_finish_keeps_traps(e, st) ==
    [e EXCEPT !.suffer_damage = st.suffer_damage,
              !.hidden = st.hidden,
              !.entity_moved = {}]

\* The storages TriggerSystem::run leaves, given the state its loops end in
trigger_finish(e, st) ==
    [entities_delete(e, Range(st.remove_entities))
        EXCEPT !.suffer_damage = st.suffer_damage,
               !.hidden = st.hidden,
               !.entity_moved = {}]

\* TriggerSystem::run
TriggerSystem(e, m, log) ==
    LET st == trigger_loop(e, m,
                           [suffer_damage |-> e.suffer_damage, hidden |-> e.hidden,
                            remove_entities |-> <<>>, log |-> log],
                           SetToSeq(e.entity_moved \cap DOMAIN e.position))
    IN [ecs |-> trigger_finish(e, st), log |-> st.log]

\* The counter that is not taken modulo the period
next_offset_unwrapped(hiding) == hiding.offset + 1

\* hiding.offset = (hiding.offset + 1) % hiding.period
next_offset(hiding) == (hiding.offset + 1) % hiding.period

\* The pass that shows a hidden trap without arming it and arms a trap as it
\* hides it
PeriodicHidingSystem_armed_hidden(e) ==
    LET wraps == {x \in DOMAIN e.periodic_hiding : next_offset(e.periodic_hiding[x]) = 0}
    IN [e EXCEPT
          !.periodic_hiding = [x \in DOMAIN e.periodic_hiding |->
                                  [e.periodic_hiding[x] EXCEPT
                                      !.offset = next_offset(e.periodic_hiding[x])]],
          !.hidden = (@ \ wraps) \cup (wraps \ e.hidden),
          !.entry_trigger = (@ \ (wraps \cap e.hidden)) \cup (wraps \ e.hidden)]

\* PeriodicHidingSystem::run
PeriodicHidingSystem(e) ==
    LET wraps == {x \in DOMAIN e.periodic_hiding : next_offset(e.periodic_hiding[x]) = 0}
    IN [e EXCEPT
          !.periodic_hiding = [x \in DOMAIN e.periodic_hiding |->
                                  [e.periodic_hiding[x] EXCEPT
                                      !.offset = next_offset(e.periodic_hiding[x])]],
          \* a Hidden trap loses Hidden and gains EntryTrigger, any other trap
          \* loses EntryTrigger and gains Hidden
          !.hidden = (@ \ wraps) \cup (wraps \ e.hidden),
          !.entry_trigger = (@ \ (wraps \ e.hidden)) \cup (wraps \cap e.hidden)]

RECURSIVE index_loop(_, _, _)
index_loop(e, m, todo) ==
    IF todo = <<>> THEN m
    ELSE LET ent == Head(todo)
             idx == xy_idx(e.position[ent].x, e.position[ent].y)
         IN index_loop(e,
                       [m EXCEPT !.blocked = IF ent \in e.blocks_tile
                                             THEN @ \cup {idx} ELSE @,
                                 !.tile_content[idx] = Append(@, ent)],
                       Tail(todo))

\* MapIndexingSystem::run: the blocked flags are recomputed from the tiles,
\* the content index is cleared, then every entity with a Position is listed
\* on its tile and flags it blocked when it carries BlocksTile.
MapIndexingSystem(e, m) ==
    index_loop(e, clear_content_index(populate_blocked(m)), SetToSeq(DOMAIN e.position))

RECURSIVE SumOver(_, _)
SumOver(f, S) ==
    IF S = {} THEN 0
    ELSE LET x == CHOOSE y \in S : TRUE IN f[x] + SumOver(f, S \ {x})

\* The sum of MeleePowerBonus.power over the items Equipped by `ent`
offensive_bonus(e, ent) ==
    SumOver([x \in DOMAIN e.melee_power_bonus |-> e.melee_power_bonus[x].power],
            {x \in (DOMAIN e.melee_power_bonus) \cap (DOMAIN e.equipped) :
                e.equipped[x].owner = ent})

\* The sum of DefenseBonus.defense over the items Equipped by `target`
defensive_bonus(e, target) ==
    SumOver([x \in DOMAIN e.defense_bonus |-> e.defense_bonus[x].defense],
            {x \in (DOMAIN e.defense_bonus) \cap (DOMAIN e.equipped) :
                e.equipped[x].owner = target})

\* The damage computed from the combat stats alone
melee_damage_unequipped(e, ent, target) ==
    Max(0, e.combat_stats[ent].power - e.combat_stats[target].defense)

\* The damage of the attack of `ent` on `target` in MeleeCombatSystem::run
melee_damage(e, ent, target) ==
    Max(0, (e.combat_stats[ent].power + offensive_bonus(e, ent))
           - (e.combat_stats[target].defense + defensive_bonus(e, target)))

\* The body of the loop of MeleeCombatSystem::run for attacker `ent`, on the
\* SufferDamage storage and the log.
melee_resolve(e, st, ent) ==
    LET target == e.wants_to_melee[ent].target
    IN IF /\ e.combat_stats[ent].hp > 0
          /\ target \in DOMAIN e.combat_stats
          /\ e.combat_stats[target].hp > 0
          /\ target \in DOMAIN e.name
       THEN IF melee_damage(e, ent, target) = 0
            THEN [st EXCEPT !.log = Append(@, e.name[ent] \o " is unable to hurt "
                                               \o e.name[target])]
            ELSE [suffer_damage |-> new_damage(st.suffer_damage, target,
                                               melee_damage(e, ent, target)),
                  log |-> Append(st.log, e.name[ent] \o " hits " \o e.name[target] \o ", for "
                                       \o ToString(melee_damage(e, ent, target)) \o " hp.")]
       ELSE st

RECURSIVE melee_loop(_, _, _)
melee_loop(e, st, todo) ==
    IF todo = <<>> THEN st
    ELSE melee_loop(e, melee_resolve(e, st, Head(todo)), Tail(todo))

\* The join narrowed to the Player entities
MeleeJoin_players(e) ==
    (DOMAIN e.wants_to_melee) \cap (DOMAIN e.name) \cap (DOMAIN e.combat_stats) \cap e.player

\* The join (&entities, &wants_melee, &names, &combat_stats)
MeleeJoin(e) == (DOMAIN e.wants_to_melee) \cap (DOMAIN e.name) \cap (DOMAIN e.combat_stats)

\* The WantsToMelee storage left as it is
melee_clear_skipped(store) == store

\* The WantsToMelee storage MeleeCombatSystem::run leaves
melee_clear(store) == Empty

\* MeleeCombatSystem::run
MeleeCombatSystem(e, log) ==
    LET st == melee_loop(e, [suffer_damage |-> e.suffer_damage, log |-> log],
                         SetToSeq(MeleeJoin(e)))
    IN [ecs |-> [e EXCEPT !.suffer_damage = st.suffer_damage,
                          !.wants_to_melee = melee_clear(@)],
        log |-> st.log]

\* DamageSystem::run: every entity with CombatStats and SufferDamage loses the
\* sum of the pending amounts, then the SufferDamage storage is cleared.
DamageSystem(e) ==
    [e EXCEPT !.combat_stats =
                 [x \in DOMAIN e.combat_stats |->
                     IF x \in DOMAIN e.suffer_damage
                     THEN [e.combat_stats[x] EXCEPT !.hp = @ - SumSeq(e.suffer_damage[x])]
                     ELSE e.combat_stats[x]],
              !.suffer_damage = Empty]

\* The entities delete_the_dead removes: CombatStats with hp <= 0
TheDead(e) == {x \in DOMAIN e.combat_stats : e.combat_stats[x].hp <= 0}

\* damage_system::delete_the_dead: immediate deletion of the dead
delete_the_dead(e) == delete_entities(e, TheDead(e))

\* The entities delete_the_dead names in the log
dead_log(e) ==
    [i \in 1 .. Cardinality(TheDead(e) \cap DOMAIN e.name) |->
        e.name[SetToSeq(TheDead(e) \cap DOMAIN e.name)[i]] \o " is dead"]

\* ItemCollectionSystem::run: every picked-up item leaves the map for the
\* collector's backpack, and the intents are cleared.
ItemCollectionSystem(e) ==
    LET picked == {e.wants_to_pickup_item[x].item : x \in DOMAIN e.wants_to_pickup_item}
        by(i) == CHOOSE x \in DOMAIN e.wants_to_pickup_item :
                     e.wants_to_pickup_item[x].item = i
    IN [e EXCEPT !.position = Drop(@, picked),
                 !.in_backpack =
                     [i \in (DOMAIN @) \cup (picked \cap e.entities) |->
                         IF i \in picked
                         THEN [owner |-> e.wants_to_pickup_item[by(i)].collected_by]
                         ELSE @[i]],
                 !.wants_to_pickup_item = Empty]

\* The items ItemUseSystem::run uses in this pass
UsedItems(e) == {e.wants_to_use_item[x].item : x \in DOMAIN e.wants_to_use_item}

\* ItemUseSystem::run: a used MagicMapper item requests the map reveal through
\* the RunState resource, a used Consumable is queued for deletion, and the
\* intents are cleared.
ItemUseSystem(e, rs) ==
    [ecs |-> [entities_delete(e, UsedItems(e) \cap e.consumable)
                EXCEPT !.wants_to_use_item = Empty],
     runstate |-> IF UsedItems(e) \cap e.magic_mapper # {}
                  THEN MagicMapReveal(0) ELSE rs]

\* ItemDropSystem::run: every dropped item leaves the backpack for the
\* dropper's tile, and the intents are cleared.
ItemDropSystem(e) ==
    LET droppers == (DOMAIN e.wants_to_drop_item) \cap (DOMAIN e.position)
        dropped == {e.wants_to_drop_item[x].item : x \in droppers}
        by(i) == CHOOSE x \in droppers : e.wants_to_drop_item[x].item = i
    IN [e EXCEPT !.position =
                     [i \in (DOMAIN @) \cup (dropped \cap e.entities) |->
                         IF i \in dropped THEN e.position[by(i)] ELSE @[i]],
                 !.in_backpack = Drop(@, dropped),
                 !.wants_to_drop_item = Empty]

\* ItemRemoveSystem::run: every removed item goes from Equipped to the
\* backpack of the entity that removed it, and the intents are cleared.
ItemRemoveSystem(e) ==
    LET removed == {e.wants_to_remove_item[x].item : x \in DOMAIN e.wants_to_remove_item}
        by(i) == CHOOSE x \in DOMAIN e.wants_to_remove_item :
                     e.wants_to_remove_item[x].item = i
    IN [e EXCEPT !.equipped = Drop(@, removed),
                 !.in_backpack =
                     [i \in (DOMAIN @) \cup (removed \cap e.entities) |->
                         IF i \in removed THEN [owner |-> by(i)] ELSE @[i]],
                 !.wants_to_remove_item = Empty]

\* HungerSystem::run and ParticleSpawnSystem::run touch none of the modelled
\* storages: the hunger clock's rule is not part of this model, and particle
\* entities carry only Position, Renderable and ParticleLifetime.
HungerSystem(e) == e
ParticleSpawnSystem(e) == e

\* ------------------------------------------------------------ player input

\* The join (&entities, &players, &mut positions, &mut viewsheds)
PlayerJoin(e) == e.player \cap (DOMAIN e.position) \cap (DOMAIN e.viewshed)

\* The first entity of a tile_content list that has CombatStats, or None
RECURSIVE first_target(_, _)
first_target(e, content) ==
    IF content = <<>> THEN None
    ELSE IF Head(content) \in DOMAIN e.combat_stats THEN Some(Head(content))
    ELSE first_target(e, Tail(content))

\* The step of try_move_player without the write of viewshed.dirty
move_player_clean(e, entity, x, y) ==
    [e EXCEPT !.position[entity] = Pt(Min(79, Max(0, x)), Min(49, Max(0, y))),
              !.entity_moved = @ \cup {entity}]

\* The step try_move_player makes with a free destination: the Position, the
\* dirty flag and the EntityMoved marker of the player entity.
move_player(e, entity, x, y) ==
    [e EXCEPT !.position[entity] = Pt(Min(79, Max(0, x)), Min(49, Max(0, y))),
              !.viewshed[entity].dirty = TRUE,
              !.entity_moved = @ \cup {entity}]

RECURSIVE try_move_loop(_, _, _, _, _, _)
try_move_loop(delta_x, delta_y, e, m, pt, todo) ==
    IF todo = <<>> THEN [ecs |-> e, player_pt |-> pt]
    ELSE LET entity == Head(todo)
             pos == e.position[entity]
             x == pos.x + delta_x
             y == pos.y + delta_y
         IN IF x < 0 \/ x > m.width - 1 \/ y < 1 \/ y > m.height - 1
            THEN [ecs |-> e, player_pt |-> pt]
            ELSE IF first_target(e, m.tile_content[xy_idx(x, y)]) # None
            THEN [ecs |-> [e EXCEPT !.wants_to_melee =
                              Put(@, entity,
                                  [target |->
                                      TheSome(first_target(e, m.tile_content[xy_idx(x, y)]))])],
                  player_pt |-> pt]
            ELSE IF xy_idx(x, y) \notin m.blocked
            THEN try_move_loop(delta_x, delta_y, move_player(e, entity, x, y), m,
                               Pt(Min(79, Max(0, x)), Min(49, Max(0, y))), Tail(todo))
            ELSE try_move_loop(delta_x, delta_y, e, m, pt, Tail(todo))

\* player::try_move_player
try_move_player(delta_x, delta_y, e, m, pt) ==
    try_move_loop(delta_x, delta_y, e, m, pt, SetToSeq(PlayerJoin(e)))

\* The item get_item picks: the last Item entity standing on the player's
\* point, or None
target_item(e, pt) ==
    LET here == {i \in e.item \cap DOMAIN e.position :
                    e.position[i].x = pt.x /\ e.position[i].y = pt.y}
    IN IF here = {} THEN None ELSE Some(CHOOSE i \in here : \A j \in here : j <= i)

\* player::get_item
get_item(e, pt, pe) ==
    IF target_item(e, pt) = None
    THEN [ecs |-> e, log |-> <<"There is nothing here to pick up.">>]
    ELSE [ecs |-> [e EXCEPT !.wants_to_pickup_item =
                       Put(@, pe, [collected_by |-> pe, item |-> TheSome(target_item(e, pt))])],
          log |-> <<>>]

\* player::try_next_level
try_next_level(m, pt) == m.tiles[xy_idx(pt.x, pt.y)] = DownStairs

\* A skip_turn that heals without looking at max_hp
skip_turn_uncapped(e, m, pe) ==
    LET seen == UNION {Range(m.tile_content[PtIdx(p)]) : p \in e.viewshed[pe].visible_tiles}
        can_heal == /\ seen \cap DOMAIN e.monster_ai = {}
                    /\ ~(pe \in DOMAIN e.hunger_clock
                         /\ e.hunger_clock[pe].state \in {"Hungry", "Starving"})
    IN IF can_heal
       THEN [e EXCEPT !.combat_stats[pe].hp = @ + 1]
       ELSE e

\* player::skip_turn: the player heals one point unless a monster stands on a
\* visible tile (by tile_content) or the player is Hungry or Starving.
skip_turn(e, m, pe) ==
    LET seen == UNION {Range(m.tile_content[PtIdx(p)]) : p \in e.viewshed[pe].visible_tiles}
        can_heal == /\ seen \cap DOMAIN e.monster_ai = {}
                    /\ ~(pe \in DOMAIN e.hunger_clock
                         /\ e.hunger_clock[pe].state \in {"Hungry", "Starving"})
    IN IF can_heal
       THEN [e EXCEPT !.combat_stats[pe].hp = Min(@ + 1, e.combat_stats[pe].max_hp)]
       ELSE e

\* The keys player_input tells apart
MoveKeys == {"Left", "Right", "Up", "Down", "Numpad9", "Numpad7", "Numpad3", "Numpad1"}
OtherKeys == {"G", "I", "D", "Escape", "Period", "Numpad5", "R", "Other"}

KeyDelta(key) ==
    CASE key = "Left" -> <<-1, 0>>
      [] key = "Right" -> <<1, 0>>
      [] key = "Up" -> <<0, -1>>
      [] key = "Down" -> <<0, 1>>
      [] key = "Numpad9" -> <<1, -1>>
      [] key = "Numpad7" -> <<-1, -1>>
      [] key = "Numpad3" -> <<1, 1>>
      [] key = "Numpad1" -> <<-1, 1>>

\* player::player_input for ctx.key = Some(key): the World it leaves, the log
\* entries it appends and the RunState it returns.
player_input(key, e, m, pt, pe) ==
    CASE key \in MoveKeys ->
            LET r == try_move_player(KeyDelta(key)[1], KeyDelta(key)[2], e, m, pt)
            IN [ecs |-> r.ecs, player_pt |-> r.player_pt, log |-> <<>>,
                runstate |-> RS("PlayerTurn")]
      [] key = "G" ->
            [ecs |-> get_item(e, pt, pe).ecs, player_pt |-> pt,
             log |-> get_item(e, pt, pe).log, runstate |-> RS("PlayerTurn")]
      [] key = "I" ->
            [ecs |-> e, player_pt |-> pt, log |-> <<>>, runstate |-> RS("ShowInventory")]
      [] key = "D" ->
            [ecs |-> e, player_pt |-> pt, log |-> <<>>, runstate |-> RS("ShowDropItem")]
      [] key = "Escape" ->
            [ecs |-> e, player_pt |-> pt, log |-> <<>>, runstate |-> MainMenu("Quit")]
      [] key = "Period" ->
            IF try_next_level(m, pt)
            THEN [ecs |-> e, player_pt |-> pt, log |-> <<>>, runstate |-> RS("NextLevel")]
            ELSE [ecs |-> e, player_pt |-> pt,
                  log |-> <<"There is no way down from here.">>,
                  runstate |-> RS("PlayerTurn")]
      [] key = "Numpad5" ->
            [ecs |-> skip_turn(e, m, pe), player_pt |-> pt, log |-> <<>>,
             runstate |-> RS("PlayerTurn")]
      [] key = "R" ->
            [ecs |-> e, player_pt |-> pt, log |-> <<>>, runstate |-> RS("ShowRemoveItem")]
      [] OTHER ->
            [ecs |-> e, player_pt |-> pt, log |-> <<>>, runstate |-> RS("AwaitingInput")]

\* ----------------------------------------------------------------- spawner

\* A World with no entity
EmptyWorld ==
    [entities |-> {}, killed |-> {},
     position |-> Empty, viewshed |-> Empty, monster_ai |-> Empty, name |-> Empty,
     combat_stats |-> Empty, suffer_damage |-> Empty, wants_to_melee |-> Empty,
     confusion |-> Empty, inflicts_damage |-> Empty, reveal_chance |-> Empty,
     periodic_hiding |-> Empty, in_backpack |-> Empty, hunger_clock |-> Empty,
     wants_to_pickup_item |-> Empty, wants_to_use_item |-> Empty,
     wants_to_drop_item |-> Empty, wants_to_remove_item |-> Empty,
     equipped |-> Empty, melee_power_bonus |-> Empty, defense_bonus |-> Empty,
     player |-> {}, blocks_tile |-> {}, hidden |-> {}, entry_trigger |-> {},
     entity_moved |-> {}, single_activation |-> {}, item |-> {}, consumable |-> {},
     magic_mapper |-> {}, serialization_helper |-> Empty]

\* spawner::player, the new entity being `id`
spawn_player(e, id, player_x, player_y) ==
    [e EXCEPT !.entities = @ \cup {id},
              !.position = Put(@, id, Pt(player_x, player_y)),
              !.player = @ \cup {id},
              !.viewshed = Put(@, id, [visible_tiles |-> {}, range |-> ViewRange,
                                       dirty |-> TRUE]),
              !.name = Put(@, id, "Player"),
              !.combat_stats = Put(@, id, [max_hp |-> PlayerMaxHp, hp |-> PlayerMaxHp,
                                           defense |-> PlayerDefense,
                                           power |-> PlayerPower]),
              !.hunger_clock = Put(@, id, [state |-> "WellFed", duration |-> 20])]

\* spawner::monster, the new entity being `id`
spawn_monster(e, id, x, y, name) ==
    [e EXCEPT !.entities = @ \cup {id},
              !.position = Put(@, id, Pt(x, y)),
              !.viewshed = Put(@, id, [visible_tiles |-> {}, range |-> ViewRange,
                                       dirty |-> TRUE]),
              !.monster_ai = Put(@, id, [target_point |-> None]),
              !.name = Put(@, id, name),
              !.blocks_tile = @ \cup {id},
              !.combat_stats = Put(@, id, [max_hp |-> MonsterMaxHp, hp |-> MonsterMaxHp,
                                           defense |-> MonsterDefense,
                                           power |-> MonsterPower])]

\* spawner::bear_trap, the new entity being `id`
spawn_bear_trap(e, id, x, y) ==
    [e EXCEPT !.entities = @ \cup {id},
              !.position = Put(@, id, Pt(x, y)),
              !.hidden = @ \cup {id},
              !.name = Put(@, id, "Bear Trap"),
              !.entry_trigger = @ \cup {id},
              !.inflicts_damage = Put(@, id, BearTrapDamage),
              !.single_activation = @ \cup {id},
              !.reveal_chance = Put(@, id, BearTrapRevealChance)]

\* spawner::dagger, the new entity being `id`
spawn_dagger(e, id, x, y) ==
    [e EXCEPT !.entities = @ \cup {id},
              !.position = Put(@, id, Pt(x, y)),
              !.name = Put(@, id, "Dagger"),
              !.item = @ \cup {id},
              !.melee_power_bonus = Put(@, id, [power |-> DaggerPower])]

\* spawner::tower_shield, the new entity being `id`
spawn_tower_shield(e, id, x, y) ==
    [e EXCEPT !.entities = @ \cup {id},
              !.position = Put(@, id, Pt(x, y)),
              !.name = Put(@, id, "Tower Shield"),
              !.item = @ \cup {id},
              !.defense_bonus = Put(@, id, [defense |-> TowerShieldDefense])]

\* spawner::periodic_trap, the new entity being `id` and the roll of the dice
\* `rand_offset`
spawn_periodic_trap(e, id, x, y, rand_offset) ==
    [e EXCEPT !.entities = @ \cup {id},
              !.position = Put(@, id, Pt(x, y)),
              !.hidden = @ \cup {id},
              !.name = Put(@, id, "Periodic Trap"),
              !.entry_trigger = @ \cup {id},
              !.inflicts_damage = Put(@, id, PeriodicTrapDamage),
              !.single_activation = @ \cup {id},
              !.periodic_hiding = Put(@, id, [period |-> PeriodicTrapPeriod,
                                              offset |-> rand_offset])]

\* spawner::magic_mapping_scroll, the new entity being `id`
spawn_magic_mapping_scroll(e, id, x, y) ==
    [e EXCEPT !.entities = @ \cup {id},
              !.position = Put(@, id, Pt(x, y)),
              !.name = Put(@, id, "Scroll of Magic Mapping"),
              !.item = @ \cup {id},
              !.magic_mapper = @ \cup {id},
              !.consumable = @ \cup {id}]

\* -------------------------------------------------------------------- tick

\* The systems with the map indexed before the triggers run
SystemOrder_indexed_early ==
    <<"Visibility", "MonsterAI", "MapIndexing", "Trigger", "PeriodicHiding",
      "MeleeCombat", "Damage", "ItemCollection", "ItemUse", "ItemDrop",
      "ItemRemove", "Hunger", "ParticleSpawn", "maintain">>

\* The systems of State::run_systems in the order it runs them, the closing
\* World::maintain included.
SystemOrder ==
    <<"Visibility", "MonsterAI", "Trigger", "PeriodicHiding", "MapIndexing",
      "MeleeCombat", "Damage", "ItemCollection", "ItemUse", "ItemDrop",
      "ItemRemove", "Hunger", "ParticleSpawn", "maintain">>

\* What follows system `sys` in run_systems: the next system, or the rest of
\* the tick ("end").
After(sys) ==
    LET i == CHOOSE k \in DOMAIN SystemOrder : SystemOrder[k] = sys
    IN IF i = Len(SystemOrder) THEN "end" ELSE SystemOrder[i + 1]

\* The run states in which State::tick calls run_systems
PipelineStates == {"PreRun", "PlayerTurn", "MonsterTurn"}

\* The run state of a tick that does not look at the RunState resource
pipeline_newrunstate_fixed(start, resource) ==
    IF start.name = "PlayerTurn" THEN RS("MonsterTurn") ELSE RS("AwaitingInput")

\* The run state a tick that ran the systems returns: `start` is the state the
\* tick began in, `resource` the RunState resource after the systems ran.
pipeline_newrunstate(start, resource) ==
    CASE start.name = "PreRun" -> RS("AwaitingInput")
      [] start.name = "PlayerTurn" ->
            IF resource.name = "MagicMapReveal" THEN MagicMapReveal(0)
            ELSE RS("MonsterTurn")
      [] start.name = "MonsterTurn" -> RS("AwaitingInput")

\* The sweep of the dead made only by ticks that began in MonsterTurn
end_of_tick_monster_turn(e, start) ==
    IF start.name = "MonsterTurn" THEN delete_the_dead(e) ELSE e

\* The end of every State::tick: damage_system::delete_the_dead on the World,
\* `start` being the run state the tick began in.
end_of_tick(e, start) == delete_the_dead(e)

\* The tick writes `rs` to the RunState resource and sweeps the dead.
Finish(e, start, rs, log) ==
    /\ runstate' = rs
    /\ ecs' = end_of_tick(e, start)
    /\ gamelog' = log \o dead_log(e)
    /\ pc' = "tick"

\* State::tick in PreRun, PlayerTurn or MonsterTurn, up to the call of
\* run_systems
TickRunSystems ==
    /\ pc = "tick"
    /\ runstate.name \in PipelineStates
    /\ newrunstate' = runstate
    /\ pc' = SystemOrder[1]
    /\ ran' = <<>>
    /\ gamelog' = <<>>
    /\ UNCHANGED <<ecs, map, runstate, player_pt, player_entity, turns>>
    /\ UNCHANGED <<rolls, builder, savegame>>

\* `sys` runs now and the system after it runs next.
Advance(sys) ==
    /\ pc = sys
    /\ pc' = After(sys)
    /\ ran' = Append(ran, sys)
    /\ UNCHANGED <<newrunstate, turns, player_entity>>

RunVisibility ==
    /\ Advance("Visibility")
    /\ \E o \in reveal_rolls(ecs, map) :
          LET r == VisibilitySystem(ecs, map, gamelog, {x \in DOMAIN o : o[x].spotted})
          IN /\ ecs' = r.ecs /\ map' = r.map /\ gamelog' = r.log
             /\ rolls' = [x \in DOMAIN o |-> o[x].dice]
    /\ UNCHANGED <<runstate, player_pt>>
    /\ UNCHANGED <<builder, savegame>>

RunMonsterAI ==
    /\ Advance("MonsterAI")
    /\ \E ch \in AIChoices(ecs, map, player_pt) :
          ecs' = MonsterAISystem(ecs, map, player_pt, player_entity, runstate, ch)
    /\ UNCHANGED <<map, runstate, player_pt, gamelog>>
    /\ UNCHANGED <<rolls, builder, savegame>>

RunTrigger ==
    /\ Advance("Trigger")
    /\ ecs' = TriggerSystem(ecs, map, gamelog).ecs
    /\ gamelog' = TriggerSystem(ecs, map, gamelog).log
    /\ UNCHANGED <<map, runstate, player_pt>>
    /\ UNCHANGED <<rolls, builder, savegame>>

RunPeriodicHiding ==
    /\ Advance("PeriodicHiding")
    /\ ecs' = PeriodicHidingSystem(ecs)
    /\ UNCHANGED <<map, runstate, player_pt, gamelog>>
    /\ UNCHANGED <<rolls, builder, savegame>>

RunMapIndexing ==
    /\ Advance("MapIndexing")
    /\ map' = MapIndexingSystem(ecs, map)
    /\ UNCHANGED <<ecs, runstate, player_pt, gamelog>>
    /\ UNCHANGED <<rolls, builder, savegame>>

RunMeleeCombat ==
    /\ Advance("MeleeCombat")
    /\ ecs' = MeleeCombatSystem(ecs, gamelog).ecs
    /\ gamelog' = MeleeCombatSystem(ecs, gamelog).log
    /\ UNCHANGED <<map, runstate, player_pt>>
    /\ UNCHANGED <<rolls, builder, savegame>>

RunDamage ==
    /\ Advance("Damage")
    /\ ecs' = DamageSystem(ecs)
    /\ UNCHANGED <<map, runstate, player_pt, gamelog>>
    /\ UNCHANGED <<rolls, builder, savegame>>

RunItemCollection ==
    /\ Advance("ItemCollection")
    /\ ecs' = ItemCollectionSystem(ecs)
    /\ UNCHANGED <<map, runstate, player_pt, gamelog>>
    /\ UNCHANGED <<rolls, builder, savegame>>

RunItemUse ==
    /\ Advance("ItemUse")
    /\ ecs' = ItemUseSystem(ecs, runstate).ecs
    /\ runstate' = ItemUseSystem(ecs, runstate).runstate
    /\ UNCHANGED <<map, player_pt, gamelog>>
    /\ UNCHANGED <<rolls, builder, savegame>>

RunItemDrop ==
    /\ Advance("ItemDrop")
    /\ ecs' = ItemDropSystem(ecs)
    /\ UNCHANGED <<map, runstate, player_pt, gamelog>>
    /\ UNCHANGED <<rolls, builder, savegame>>

RunItemRemove ==
    /\ Advance("ItemRemove")
    /\ ecs' = ItemRemoveSystem(ecs)
    /\ UNCHANGED <<map, runstate, player_pt, gamelog>>
    /\ UNCHANGED <<rolls, builder, savegame>>

RunHunger ==
    /\ Advance("Hunger")
    /\ ecs' = HungerSystem(ecs)
    /\ UNCHANGED <<map, runstate, player_pt, gamelog>>
    /\ UNCHANGED <<rolls, builder, savegame>>

RunParticleSpawn ==
    /\ Advance("ParticleSpawn")
    /\ ecs' = ParticleSpawnSystem(ecs)
    /\ UNCHANGED <<map, runstate, player_pt, gamelog>>
    /\ UNCHANGED <<rolls, builder, savegame>>

RunMaintain ==
    /\ Advance("maintain")
    /\ ecs' = maintain(ecs)
    /\ UNCHANGED <<map, runstate, player_pt, gamelog>>
    /\ UNCHANGED <<rolls, builder, savegame>>

\* State::tick in PreRun, PlayerTurn or MonsterTurn after run_systems: the
\* PlayerTurn arm maintains once more, then the new run state is written and
\* the dead are swept.
TickAfterSystems ==
    /\ pc = "end"
    /\ Finish(IF newrunstate.name = "PlayerTurn" THEN maintain(ecs) ELSE ecs,
              newrunstate, pipeline_newrunstate(newrunstate, runstate), gamelog)
    /\ UNCHANGED <<map, player_pt, player_entity, newrunstate, ran, turns>>
    /\ UNCHANGED <<rolls, builder, savegame>>

\* State::tick in AwaitingInput with a key pressed
TickAwaitingInput ==
    /\ pc = "tick"
    /\ runstate.name = "AwaitingInput"
    /\ turns < MaxTurns
    /\ \E key \in MoveKeys \cup OtherKeys :
          /\ key \in {"G", "Numpad5"} => player_entity \in ecs.entities
          /\ LET r == player_input(key, ecs, map, player_pt, player_entity)
             IN /\ Finish(r.ecs, runstate, r.runstate, r.log)
                /\ player_pt' = r.player_pt
    /\ turns' = turns + 1
    /\ newrunstate' = runstate
    /\ ran' = <<>>
    /\ UNCHANGED <<map, player_entity>>
    /\ UNCHANGED <<rolls, builder, savegame>>

\* The items a menu of the player's backpack offers
Backpack(e, pe) == {i \in DOMAIN e.in_backpack : e.in_backpack[i].owner = pe}

\* State::tick in ShowInventory: the menu is cancelled, or an item of the
\* backpack is selected and the player wants to use it.
TickShowInventory ==
    /\ pc = "tick"
    /\ runstate.name = "ShowInventory"
    /\ \/ Finish(ecs, runstate, RS("AwaitingInput"), <<>>)
       \/ Finish(ecs, runstate, runstate, <<>>)
       \/ \E item_entity \in Backpack(ecs, player_entity) :
             /\ player_entity \in ecs.entities
             /\ Finish([ecs EXCEPT !.wants_to_use_item =
                           Put(@, player_entity, [item |-> item_entity, target |-> None])],
                       runstate, RS("PlayerTurn"), <<>>)
    /\ newrunstate' = runstate
    /\ ran' = <<>>
    /\ UNCHANGED <<map, player_pt, player_entity, turns>>
    /\ UNCHANGED <<rolls, builder, savegame>>

\* State::tick in ShowDropItem
TickShowDropItem ==
    /\ pc = "tick"
    /\ runstate.name = "ShowDropItem"
    /\ \/ Finish(ecs, runstate, RS("AwaitingInput"), <<>>)
       \/ Finish(ecs, runstate, runstate, <<>>)
       \/ \E item_entity \in Backpack(ecs, player_entity) :
             /\ player_entity \in ecs.entities
             /\ Finish([ecs EXCEPT !.wants_to_drop_item =
                           Put(@, player_entity, [item |-> item_entity])],
                       runstate, RS("PlayerTurn"), <<>>)
    /\ newrunstate' = runstate
    /\ ran' = <<>>
    /\ UNCHANGED <<map, player_pt, player_entity, turns>>
    /\ UNCHANGED <<rolls, builder, savegame>>

\* The row marked short of its last tile
reveal_row_short(m, row) ==
    [m EXCEPT !.revealed_tiles = @ \cup {xy_idx(x, row) : x \in 0 .. (MAP_WIDTH - 2)}]

\* The tiles of row `row` that MagicMapReveal marks
reveal_row(m, row) ==
    [m EXCEPT !.revealed_tiles = @ \cup {xy_idx(x, row) : x \in 0 .. (MAP_WIDTH - 1)}]

\* State::tick in MagicMapReveal{row}
TickMagicMapReveal ==
    /\ pc = "tick"
    /\ runstate.name = "MagicMapReveal"
    /\ map' = reveal_row(map, runstate.row)
    /\ Finish(ecs, runstate,
              IF runstate.row = MAP_HEIGHT - 1 THEN RS("MonsterTurn")
              ELSE MagicMapReveal(runstate.row + 1),
              <<>>)
    /\ newrunstate' = runstate
    /\ ran' = <<>>
    /\ UNCHANGED <<player_pt, player_entity, turns>>
    /\ UNCHANGED <<rolls, builder, savegame>>

\* The entities a new level can start with besides those carried over: none,
\* or a goblin
NextGoblin == 9
LevelSpawns == {None, Some(Pt(3, 1))}

\* The entities to delete on a level change that spare only the player
entities_to_remove_sparing_player(e, pe) == {x \in e.entities : x \notin e.player}

\* State::entities_to_remove_on_level_change
entities_to_remove_on_level_change(e, pe) ==
    {x \in e.entities :
        /\ x \notin e.player
        /\ ~(x \in DOMAIN e.in_backpack /\ e.in_backpack[x].owner = pe)
        /\ ~(x \in DOMAIN e.equipped /\ e.equipped[x].owner = pe)}

\* A generate_world_map that writes the Point resource and leaves the
\* player's Position where it was
generate_world_map_unplaced(e, new_depth, pe, spawn) ==
    LET e1 == IF spawn = None THEN e
              ELSE spawn_monster(e, NextGoblin, TheSome(spawn).x, TheSome(spawn).y, "Goblin")
    IN [map |-> NewMap(new_depth),
        player_pt |-> StartingPosition,
        ecs |-> [e1 EXCEPT
                   !.viewshed = IF pe \in DOMAIN @
                                THEN [@ EXCEPT ![pe].dirty = TRUE] ELSE @]]

\* State::generate_world_map(new_depth): the builder's map and entities (a
\* goblin on `spawn`, or none), the player on the starting position with a
\* dirty viewshed
generate_world_map(e, new_depth, pe, spawn) ==
    LET e1 == IF spawn = None THEN e
              ELSE spawn_monster(e, NextGoblin, TheSome(spawn).x, TheSome(spawn).y, "Goblin")
    IN [map |-> NewMap(new_depth),
        player_pt |-> StartingPosition,
        ecs |-> [e1 EXCEPT
                   !.position = IF pe \in DOMAIN @
                                THEN [@ EXCEPT ![pe] = StartingPosition] ELSE @,
                   !.viewshed = IF pe \in DOMAIN @
                                THEN [@ EXCEPT ![pe].dirty = TRUE] ELSE @]]

\* State::goto_next_level
goto_next_level(e, m, pe, spawn) ==
    LET kept == delete_entities(e, entities_to_remove_on_level_change(e, pe))
        g == generate_world_map(kept, m.depth + 1, pe, spawn)
    IN [map |-> g.map,
        player_pt |-> g.player_pt,
        log |-> <<"You descend to the next level, and take a moment to heal.">>,
        ecs |-> [g.ecs EXCEPT
                   !.combat_stats =
                       IF pe \in DOMAIN @
                       THEN [@ EXCEPT ![pe].hp = Max(@, g.ecs.combat_stats[pe].max_hp \div 2)]
                       ELSE @]]

\* State::tick in NextLevel
TickNextLevel ==
    /\ pc = "tick"
    /\ runstate.name = "NextLevel"
    /\ \E spawn \in LevelSpawns :
          LET r == goto_next_level(ecs, map, player_entity, spawn)
          IN /\ map' = r.map
             /\ player_pt' = r.player_pt
             /\ Finish(r.ecs, runstate, RS("PreRun"), r.log)
    /\ newrunstate' = runstate
    /\ ran' = <<>>
    /\ UNCHANGED <<player_entity, turns>>
    /\ UNCHANGED <<rolls, builder, savegame>>

\* State::tick in MainMenu: the game is resumed
TickMainMenu ==
    /\ pc = "tick"
    /\ runstate.name = "MainMenu"
    /\ Finish(ecs, runstate, RS("PreRun"), <<>>)
    /\ newrunstate' = runstate
    /\ ran' = <<>>
    /\ UNCHANGED <<map, player_pt, player_entity, turns>>
    /\ UNCHANGED <<rolls, builder, savegame>>

\* -------------------------------------------------------------------- Init

\* The entities of the modelled level
ThePlayer == 1
Goblin == 2
Orc == 3
BearTrap == 4
Scroll == 5
Dagger == 6
TowerShield == 7
PeriodicTrap == 8

\* Where the goblin is spawned: next to the player on the trap's tile, two
\* tiles away in the player's sight with the orc's tile or the trap's tile in
\* between, or out of sight behind the pillar
GoblinPts == {Pt(2, 1), Pt(1, 3), Pt(3, 1), Pt(3, 3)}

\* The level as the spawner leaves it: the player on the starting position
\* with a magic mapping scroll in the backpack, a goblin on `g`, an orc on `o`
\* (None: no orc) and a bear trap on `t`.
SpawnedWorld(g, o, t) ==
    LET e1 == spawn_player(EmptyWorld, ThePlayer, StartingPosition.x, StartingPosition.y)
        e2 == spawn_monster(e1, Goblin, g.x, g.y, "Goblin")
        e3 == IF o = None THEN e2
              ELSE spawn_monster(e2, Orc, TheSome(o).x, TheSome(o).y, "Orc")
        e4 == spawn_bear_trap(e3, BearTrap, t.x, t.y)
        e5 == spawn_magic_mapping_scroll(e4, Scroll, StartingPosition.x, StartingPosition.y)
    IN [e5 EXCEPT !.position = Drop(@, {Scroll}),
                  !.in_backpack = Put(@, Scroll, [owner |-> ThePlayer])]

\* Hit points left after earlier fights: a goblin that took three hits of the
\* player (the player after thirteen hits of a monster has as many)
WoundedHp == MonsterMaxHp - 3 * (PlayerPower - MonsterDefense)

\* Turns of confusion a confused goblin has left
ConfusedTurns == MaxTurns

\* The tile of the level's stairs
StairsPt == Pt(MAP_WIDTH - 2, MAP_HEIGHT - 2)

\* What earlier turns can have left behind: the goblin's and the player's hit
\* points, the goblin's confusion, a dagger and a tower shield that the
\* player picked up and equipped, and the tile the player walked to
Fresh ==
    [ghp |-> MonsterMaxHp, php |-> PlayerMaxHp, conf |-> None, gear |-> FALSE,
     ptrap |-> None, at |-> StartingPosition]

Histories ==
    {Fresh,
     [Fresh EXCEPT !.ghp = WoundedHp],
     [Fresh EXCEPT !.php = WoundedHp],
     [Fresh EXCEPT !.conf = Some(1)],
     [Fresh EXCEPT !.conf = Some(ConfusedTurns)],
     [Fresh EXCEPT !.gear = TRUE],
     [Fresh EXCEPT !.gear = TRUE, !.at = StairsPt],
     [Fresh EXCEPT !.php = WoundedHp, !.at = StairsPt]}

\* The same with a periodic trap about to wrap its counter: as spawned (hidden
\* and with its trigger), shown, or hidden again
PeriodicHistories ==
    {[Fresh EXCEPT !.ptrap = Some([hidden |-> TRUE, trigger |-> TRUE])],
     [Fresh EXCEPT !.ptrap = Some([hidden |-> FALSE, trigger |-> TRUE])],
     [Fresh EXCEPT !.ptrap = Some([hidden |-> TRUE, trigger |-> FALSE])],
     [Fresh EXCEPT !.ptrap = Some([hidden |-> TRUE, trigger |-> TRUE]), !.at = StairsPt]}

\* Where the periodic trap lies: the tile below the player's
PeriodicTrapPt == Pt(1, 2)

\* The world with a periodic trap whose counter wraps in the next pass, in the
\* part `phase` of its cycle
Trapped(e, phase) ==
    LET t == spawn_periodic_trap(e, PeriodicTrap, PeriodicTrapPt.x, PeriodicTrapPt.y,
                                 PeriodicTrapPeriod - 1)
    IN [t EXCEPT !.hidden = IF phase.hidden THEN @ ELSE @ \ {PeriodicTrap},
                 !.entry_trigger = IF phase.trigger THEN @ ELSE @ \ {PeriodicTrap}]

\* The item `item` picked up and equipped by `owner` in slot `slot`
equip(e, item, owner, slot) ==
    [e EXCEPT !.position = Drop(@, {item}),
              !.equipped = Put(@, item, [owner |-> owner, slot |-> slot])]

\* The world with the dagger and the tower shield equipped by the player
Geared(e) ==
    equip(equip(spawn_tower_shield(spawn_dagger(e, Dagger, StartingPosition.x,
                                                StartingPosition.y),
                                   TowerShield, StartingPosition.x, StartingPosition.y),
                Dagger, ThePlayer, "Melee"),
          TowerShield, ThePlayer, "Shield")

\* A game in progress, awaiting input after a monster turn: viewsheds
\* computed, the map indexed, the hit points, confusion and equipment of
\* history h, and the goblin remembering the player's point if it sees the
\* player, else possibly the point tp where it saw the player before.
InProgress(w, h, tp) ==
    LET w1 == IF h.gear THEN Geared(w) ELSE w
        w2 == IF h.ptrap = None THEN w1 ELSE Trapped(w1, TheSome(h.ptrap))
        w3 == [w2 EXCEPT !.position[ThePlayer] = h.at]
        v == VisibilitySystem(w3, NewMap(1), <<>>, {})
        sees == h.at \in v.ecs.viewshed[Goblin].visible_tiles
        e == [v.ecs EXCEPT !.combat_stats[Goblin].hp = h.ghp,
                           !.combat_stats[ThePlayer].hp = h.php,
                           !.monster_ai[Goblin].target_point =
                               IF sees /\ h.conf = None
                               THEN Some(h.at) ELSE tp,
                           !.confusion = IF h.conf = None THEN @
                                         ELSE Put(@, Goblin, [turns |-> TheSome(h.conf)])]
    IN [ecs |-> e, map |-> MapIndexingSystem(e, v.map)]

\* No map is being built
NoBuilder == [kind |-> "none"]

\* The start of a behavior: a world just spawned if `spawned`, or a game in
\* progress with one of `histories`, the orc being at one of `orcs`
Start(histories, orcs, spawned) ==
    /\ \E g \in GoblinPts :
       \E o \in orcs :
       \E t \in {Pt(2, 1)} :
          /\ o # Some(g)
          /\ \/ /\ spawned
                /\ ecs = SpawnedWorld(g, o, t)
                /\ map = NewMap(1)
                /\ runstate = RS("PreRun")
                /\ player_pt = StartingPosition
             \/ \E h \in {x \in histories : x.at # g} :
                \E tp \in IF h = Fresh THEN {None, Some(Pt(1, 2))} ELSE {None} :
                   /\ ecs = InProgress(SpawnedWorld(g, o, t), h, tp).ecs
                   /\ map = InProgress(SpawnedWorld(g, o, t), h, tp).map
                   /\ runstate = RS("AwaitingInput")
                   /\ player_pt = h.at
    /\ player_entity = ThePlayer
    /\ gamelog = <<>>
    /\ pc = "tick"
    /\ newrunstate = RS("PreRun")
    /\ ran = <<>>
    /\ turns = 0
    /\ rolls = Empty
    /\ builder = NoBuilder
    /\ savegame = None

Init == Start(Histories, {None, Some(Pt(1, 2))}, TRUE)

\* The start of a game in which a periodic trap lies below the player
InitPeriodicHiding == Start(PeriodicHistories, {None}, FALSE)

\* ---------------------------------------------------------------- save / load

\* The ids of one generation of entities lie below this number.  specs hands
\* the index of a deleted entity out again with the next generation; the
\* entity created in the place of entity x is x + Generation.
Generation == 16

\* The loads and new games of a behavior
MaxRestarts == 1

\* The newest generation among the ids of S
generation_of(S) ==
    LET gens == {x \div Generation : x \in S} \cup {0}
    IN CHOOSE g \in gens : \A h \in gens : h <= g

\* World::create_entity: an id that no live entity has
create_entity(e) ==
    LET ids == e.entities \cup {Generation * generation_of(e.entities)}
    IN 1 + CHOOSE x \in ids : \A y \in ids : y <= x

\* The component types of serialize_world's macro call that the World of the
\* model has a storage for, in the order of the call
SerializedTypes ==
    <<"position", "player", "viewshed", "monster_ai", "name", "blocks_tile",
      "combat_stats", "suffer_damage", "wants_to_melee", "item", "consumable",
      "inflicts_damage", "confusion", "in_backpack", "wants_to_pickup_item",
      "wants_to_use_item", "wants_to_drop_item", "serialization_helper",
      "equipped", "melee_power_bonus", "defense_bonus", "wants_to_remove_item",
      "hunger_clock", "magic_mapper", "hidden", "entry_trigger", "entity_moved",
      "single_activation">>

\* The same for deserialize_world's macro call
DeserializedTypes ==
    <<"position", "player", "viewshed", "monster_ai", "name", "blocks_tile",
      "combat_stats", "suffer_damage", "wants_to_melee", "item", "consumable",
      "inflicts_damage", "confusion", "in_backpack", "wants_to_pickup_item",
      "wants_to_use_item", "wants_to_drop_item", "serialization_helper",
      "equipped", "melee_power_bonus", "defense_bonus", "wants_to_remove_item",
      "hunger_clock", "magic_mapper", "hidden", "entry_trigger", "entity_moved",
      "single_activation">>

\* The component types that are tags: structs without a field
TagTypes ==
    {"player", "blocks_tile", "item", "consumable", "magic_mapper", "hidden",
     "entry_trigger", "entity_moved", "single_activation"}

\* serde of Map: every field but tile_content, which is skipped
serialize_map(m) == [k \in (DOMAIN m) \ {"tile_content"} |-> m[k]]

\* The Map read back: tile_content is Vec::default()
deserialize_map(d) ==
    [k \in (DOMAIN d) \cup {"tile_content"} |->
        IF k = "tile_content" THEN <<>> ELSE d[k]]

\* The entities a component of type ty refers to (the Entity fields that
\* ConvertSaveload turns into markers)
entity_fields(ty, v) ==
    CASE ty \in {"in_backpack", "equipped"} -> {v.owner}
      [] ty = "wants_to_melee" -> {v.target}
      [] ty = "wants_to_pickup_item" -> {v.collected_by, v.item}
      [] ty \in {"wants_to_use_item", "wants_to_drop_item", "wants_to_remove_item"} -> {v.item}
      [] OTHER -> {}

\* ConvertSaveload::convert_from: the value of a component of type ty with its
\* markers turned into the entities `f` allots
convert_from(ty, v, f) ==
    CASE ty \in {"in_backpack", "equipped"} -> [v EXCEPT !.owner = f[@]]
      [] ty = "wants_to_melee" -> [v EXCEPT !.target = f[@]]
      [] ty = "wants_to_pickup_item" -> [v EXCEPT !.collected_by = f[@], !.item = f[@]]
      [] ty \in {"wants_to_use_item", "wants_to_drop_item", "wants_to_remove_item"} ->
            [v EXCEPT !.item = f[@]]
      [] ty = "serialization_helper" -> [map |-> deserialize_map(v.map)]
      [] OTHER -> v

\* What SerializeComponents writes for the storage of type ty: the components
\* of the marked entities (every entity is spawned marked), keyed by marker
serialize_component(e, ty) ==
    IF ty = "serialization_helper"
    THEN [x \in DOMAIN e[ty] |-> [map |-> serialize_map(e[ty][x].map)]]
    ELSE e[ty]

\* serialize_world: one list of components per type, in the order of the types
serialize_world(e) ==
    [i \in DOMAIN SerializedTypes |-> serialize_component(e, SerializedTypes[i])]

\* The markers of a saved list
markers_of(ty, chunk) == IF ty \in TagTypes THEN chunk ELSE DOMAIN chunk

\* What DeserializeComponents stores for type ty from a saved list, `f` giving
\* the entity of every marker
deserialize_component(ty, chunk, f) ==
    IF ty \in TagTypes THEN {f[x] : x \in chunk}
    ELSE [y \in {f[x] : x \in DOMAIN chunk} |->
             convert_from(ty, chunk[CHOOSE x \in DOMAIN chunk : f[x] = y], f)]

\* deserialize_world from list i on: every list goes to the storage of the
\* type that stands at its place in the macro call
RECURSIVE deserialize_from(_, _, _, _)
deserialize_from(e, file, f, i) ==
    IF i > Len(DeserializedTypes) THEN e
    ELSE deserialize_from(
             [e EXCEPT ![DeserializedTypes[i]] =
                 deserialize_component(DeserializedTypes[i], file[i], f)],
             file, f, i + 1)

\* The markers of a saved game
Markers(file) ==
    UNION {markers_of(SerializedTypes[i], file[i]) : i \in DOMAIN file}

\* save_load_system::deserialize_world into a World without entities: an
\* entity is created for every marker, `gen` being the newest generation so far
deserialize_world(e, file, gen) ==
    LET f == [x \in Markers(file) |-> (x % Generation) + Generation * (gen + 1)]
    IN deserialize_from([e EXCEPT !.entities = {f[x] : x \in Markers(file)}],
                        file, f, 1)

\* save_game that leaves the helper entity in the World
save_game_keeping_helper(e, m) ==
    LET savehelper == create_entity(e)
        e1 == [e EXCEPT !.entities = @ \cup {savehelper},
                        !.serialization_helper = Put(@, savehelper, [map |-> m])]
    IN [file |-> serialize_world(e1), ecs |-> e1]

\* save_load_system::save_game: the file written and the World afterwards
save_game(e, m) ==
    LET savehelper == create_entity(e)
        e1 == [e EXCEPT !.entities = @ \cup {savehelper},
                        !.serialization_helper = Put(@, savehelper, [map |-> m])]
    IN [file |-> serialize_world(e1), ecs |-> delete_entities(e1, {savehelper})]

\* The last element of a join over the set S of entities
last_of(S) == CHOOSE x \in S : \A y \in S : y <= x

\* save_load_system::load_game
load_game(e, m, pt, pe, file) ==
    LET e1 == deserialize_world(delete_entities(e, e.entities), file,
                                generation_of(e.entities \cup {pe}))
        helpers == DOMAIN e1.serialization_helper
        players == e1.player \cap DOMAIN e1.position
    IN [ecs |-> delete_entities(e1, IF helpers = {} THEN {} ELSE {last_of(helpers)}),
        map |-> IF helpers = {} THEN m
                ELSE clear_content_index(e1.serialization_helper[last_of(helpers)].map),
        player_pt |-> IF players = {} THEN pt
                      ELSE Pt(e1.position[last_of(players)].x,
                              e1.position[last_of(players)].y),
        player_entity |-> IF players = {} THEN pe ELSE last_of(players)]

\* State::game_over_cleanup, the builder spawning a goblin on `spawn` or none
game_over_cleanup(e, pe, spawn) ==
    LET id == ThePlayer + Generation * (generation_of(e.entities \cup {pe}) + 1)
        e1 == spawn_player(delete_entities(e, e.entities), id, 0, 0)
        g == generate_world_map(e1, 1, id, spawn)
    IN [ecs |-> g.ecs, map |-> g.map, player_pt |-> g.player_pt, player_entity |-> id]

\* The entity references of the World's components all denote live entities:
\* ConvertSaveload has a marker for each of them
RefsAlive(e) ==
    \A i \in DOMAIN SerializedTypes :
        LET ty == SerializedTypes[i]
        IN ty \notin TagTypes =>
              \A x \in DOMAIN e[ty] : entity_fields(ty, e[ty][x]) \subseteq e.entities

\* A load or a new game may still follow
MayRestart == generation_of(ecs.entities \cup {player_entity}) < MaxRestarts

\* State::tick in MainMenu, SaveGame selected
TickMainMenuSaveGame ==
    /\ pc = "tick"
    /\ runstate.name = "MainMenu"
    /\ Finish(ecs, runstate, RS("SaveGame"), <<>>)
    /\ newrunstate' = runstate
    /\ ran' = <<>>
    /\ UNCHANGED <<map, player_pt, player_entity, turns>>
    /\ UNCHANGED <<rolls, builder, savegame>>

\* State::tick in SaveGame.  savegame keeps, next to the file, the World and
\* the Map that were saved.
TickSaveGame ==
    /\ pc = "tick"
    /\ runstate.name = "SaveGame"
    /\ RefsAlive(ecs)
    /\ LET r == save_game(ecs, map)
       IN /\ savegame' = Some([file |-> r.file, ecs |-> ecs, map |-> map])
          /\ Finish(r.ecs, runstate, MainMenu("LoadGame"), <<>>)
    /\ newrunstate' = runstate
    /\ ran' = <<>>
    /\ UNCHANGED <<map, player_pt, player_entity, turns>>
    /\ UNCHANGED <<rolls, builder>>

\* State::tick in MainMenu, LoadGame selected (the menu offers it when a
\* saved game exists): load_game, then delete_save
TickMainMenuLoadGame ==
    /\ pc = "tick"
    /\ runstate.name = "MainMenu"
    /\ savegame # None
    /\ MayRestart
    /\ LET r == load_game(ecs, map, player_pt, player_entity, TheSome(savegame).file)
       IN /\ map' = r.map
          /\ player_pt' = r.player_pt
          /\ player_entity' = r.player_entity
          /\ Finish(r.ecs, runstate, RS("AwaitingInput"), <<>>)
    /\ savegame' = None
    /\ newrunstate' = runstate
    /\ ran' = <<>>
    /\ UNCHANGED turns
    /\ UNCHANGED <<rolls, builder>>

\* State::tick in MainMenu, NewGame selected
TickMainMenuNewGame ==
    /\ pc = "tick"
    /\ runstate.name = "MainMenu"
    /\ MayRestart
    /\ \E spawn \in LevelSpawns :
          LET r == game_over_cleanup(ecs, player_entity, spawn)
          IN /\ map' = r.map
             /\ player_pt' = r.player_pt
             /\ player_entity' = r.player_entity
             /\ Finish(r.ecs, runstate, RS("PreRun"), <<>>)
    /\ newrunstate' = runstate
    /\ ran' = <<>>
    /\ UNCHANGED turns
    /\ UNCHANGED <<rolls, builder, savegame>>

Next ==
    \/ TickRunSystems
    \/ RunVisibility
    \/ RunMonsterAI
    \/ RunTrigger
    \/ RunPeriodicHiding
    \/ RunMapIndexing
    \/ RunMeleeCombat
    \/ RunDamage
    \/ RunItemCollection
    \/ RunItemUse
    \/ RunItemDrop
    \/ RunItemRemove
    \/ RunHunger
    \/ RunParticleSpawn
    \/ RunMaintain
    \/ TickAfterSystems
    \/ TickAwaitingInput
    \/ TickShowInventory
    \/ TickShowDropItem
    \/ TickMagicMapReveal
    \/ TickNextLevel
    \/ TickMainMenu

Spec == Init /\ [][Next]_vars

\* The game with a periodic trap, which no room spawns and no saved game holds
SpecPeriodicHiding == InitPeriodicHiding /\ [][Next]_vars

\* The game with its main menu: saving, loading and starting anew
InitSaveLoad == Start(Histories, {Some(Pt(1, 2))}, FALSE)

NextSaveLoad ==
    \/ Next
    \/ TickMainMenuSaveGame
    \/ TickSaveGame
    \/ TickMainMenuLoadGame
    \/ TickMainMenuNewGame

SpecSaveLoad == InitSaveLoad /\ [][NextSaveLoad]_vars

\* -------------------------------------------------------------- properties

\* How often the current tick has run the whole pipeline
PipelineRuns == Cardinality({i \in DOMAIN ran : ran[i] = "maintain"})

\* C1: a tick that starts in PreRun or MonsterTurn runs the pipeline exactly
\* once and ends in AwaitingInput; a tick that starts in PlayerTurn runs it
\* exactly once and ends in MonsterTurn, or in MagicMapReveal{row: 0} when the
\* RunState resource was set to MagicMapReveal during the run; the reveal ends
\* in MonsterTurn, so one monster turn follows every player turn before input
\* is awaited again.
C1_TickTransitions ==
    [][pc' = "tick" =>
          /\ newrunstate.name \in {"PreRun", "MonsterTurn"} /\ pc = "end" =>
                runstate' = RS("AwaitingInput") /\ PipelineRuns = 1
          /\ newrunstate.name = "PlayerTurn" /\ pc = "end" =>
                /\ PipelineRuns = 1
                /\ runstate' = IF runstate.name = "MagicMapReveal"
                               THEN MagicMapReveal(0) ELSE RS("MonsterTurn")
          /\ runstate.name \in PipelineStates => pc = "end"
          /\ runstate.name = "MagicMapReveal" /\ pc = "tick" =>
                runstate'.name \in {"MagicMapReveal", "MonsterTurn"}]_vars

\* A player turn in which the map reveal was requested has just ended.
C1_Witness ==
    pc = "tick" /\ newrunstate.name = "PlayerTurn" /\ runstate = MagicMapReveal(0)

\* C2: every pipeline run executes the systems in the fixed order Visibility,
\* AI, Trigger, PeriodicHiding, reindex, Combat, damage, pickup, use, drop,
\* remove, hunger, particles, commit: each once, one at a time.
C2_PipelineOrder ==
    LET order == <<"Visibility", "MonsterAI", "Trigger", "PeriodicHiding",
                   "MapIndexing", "MeleeCombat", "Damage", "ItemCollection",
                   "ItemUse", "ItemDrop", "ItemRemove", "Hunger",
                   "ParticleSpawn", "maintain">>
    IN /\ Len(ran) <= Len(order)
       /\ ran = SubSeq(order, 1, Len(ran))
       /\ pc = "end" => ran = order
       /\ pc \notin {"tick", "end"} => pc = order[Len(ran) + 1]

\* A pipeline run has just completed.
C2_Witness == pc = "end" /\ Len(ran) = 14

\* The entities that have their Position on tile idx
EntitiesOn(e, idx) == {x \in DOMAIN e.position : PtIdx(e.position[x]) = idx}

\* C3: whenever the Visibility system, the Trigger system or player movement
\* consults tile_content for a tile, the list holds exactly the entities
\* currently positioned on that tile.
C3_IndexFreshWhenRead ==
    /\ pc = "Trigger" =>
          \A ent \in ecs.entity_moved \cap DOMAIN ecs.position :
              Range(map.tile_content[PtIdx(ecs.position[ent])])
                  = EntitiesOn(ecs, PtIdx(ecs.position[ent]))
    /\ pc = "Visibility" =>
          \A idx \in PlayerSeenIdxs(ecs, map) :
              Range(map.tile_content[idx]) = EntitiesOn(ecs, idx)
    /\ pc = "tick" /\ runstate.name = "AwaitingInput" =>
          \A ent \in PlayerJoin(ecs) : \A idx \in Idxs :
              DistanceBelow1_5(ecs.position[ent], Pt(IdxX(idx), IdxY(idx))) =>
                  Range(map.tile_content[idx]) = EntitiesOn(ecs, idx)

\* C4: at the end of every tick no entity with CombatStats and hp <= 0 is left
\* in the store.
C4_NoDeadAtEndOfTick == pc = "tick" => TheDead(ecs) = {}

\* A tick has ended after the goblin died in it.
C4_Witness == pc = "tick" /\ Goblin \notin ecs.entities

\* The pending amounts of entity x in a SufferDamage storage
Pending(store, x) == IF x \in DOMAIN store THEN store[x] ELSE <<>>

\* The attackers of the melee join whose attack on x resolves with damage
Hitters(e, x) ==
    {ent \in MeleeJoin(e) :
        /\ e.wants_to_melee[ent].target = x
        /\ e.combat_stats[ent].hp > 0
        /\ x \in DOMAIN e.combat_stats
        /\ e.combat_stats[x].hp > 0
        /\ x \in DOMAIN e.name
        /\ (e.combat_stats[ent].power + offensive_bonus(e, ent))
               - (e.combat_stats[x].defense + defensive_bonus(e, x)) > 0}

\* C5: the amounts queued against an entity during a pipeline run are all
\* kept, in order, until the damage step: what is pending is never shortened,
\* and the combat step adds one amount per resolving attack; the damage step
\* subtracts the sum of the amounts from hp once and removes the accumulator,
\* and an entity with nothing pending keeps its hp.
C5_DamageAccumulates ==
    [][/\ pc \in {"Trigger", "MeleeCombat"} =>
             \A x \in DOMAIN ecs.suffer_damage :
                 /\ x \in DOMAIN ecs'.suffer_damage
                 /\ Len(ecs'.suffer_damage[x]) >= Len(ecs.suffer_damage[x])
                 /\ SubSeq(ecs'.suffer_damage[x], 1, Len(ecs.suffer_damage[x]))
                        = ecs.suffer_damage[x]
       /\ pc = "MeleeCombat" =>
             \A x \in ecs.entities :
                 /\ Len(Pending(ecs'.suffer_damage, x))
                        = Len(Pending(ecs.suffer_damage, x))
                              + Cardinality(Hitters(ecs, x))
                 /\ \A i \in DOMAIN Pending(ecs'.suffer_damage, x) :
                        Pending(ecs'.suffer_damage, x)[i] > 0
       /\ pc = "Damage" =>
             /\ ecs'.suffer_damage = Empty
             /\ \A x \in DOMAIN ecs.combat_stats :
                    ecs'.combat_stats[x].hp =
                        ecs.combat_stats[x].hp - SumSeq(Pending(ecs.suffer_damage, x))]_vars

\* The damage step has just applied two amounts queued against the player.
C5_Witness ==
    /\ pc = "ItemCollection"
    /\ ThePlayer \in ecs.entities
    /\ \E i \in DOMAIN gamelog : \E j \in DOMAIN gamelog :
          /\ i # j
          /\ gamelog[i] = "Goblin hits Player, for 2 hp."
          /\ gamelog[j] = "Orc hits Player, for 2 hp."

\* C6: after every complete pipeline run no entity carries WantsToMelee and
\* none carries EntityMoved.
C6_MarkersCleared ==
    pc = "end" => ecs.wants_to_melee = Empty /\ ecs.entity_moved = {}

\* A pipeline run in which an attack was resolved has completed.
C6_Witness ==
    pc = "end" /\ \E i \in DOMAIN gamelog : gamelog[i] = "Player hits Goblin, for 4 hp."

\* The visible set VisibilitySystem computes for an entity standing on pos
ViewFrom(m, pos, range) ==
    {p \in field_of_view(Pt(pos.x, pos.y), range, m) : InMap(p.x, p.y)}

\* C7: every step that changes the Position of an entity with a Viewshed
\* leaves that Viewshed dirty, so a Viewshed that is not dirty holds the
\* visible set computed from the entity's current Position.
C7_MovesMarkDirty ==
    /\ [][\A ent \in (DOMAIN ecs.position) \cap (DOMAIN ecs'.position) :
              ecs'.position[ent] # ecs.position[ent] /\ ent \in DOMAIN ecs'.viewshed =>
                  ecs'.viewshed[ent].dirty]_vars
    /\ [](\A ent \in VisibilityJoin(ecs) :
              ~ecs.viewshed[ent].dirty =>
                  ecs.viewshed[ent].visible_tiles
                      = ViewFrom(map, ecs.position[ent], ecs.viewshed[ent].range))

\* The player has just stepped off the starting position.
C7_Witness ==
    /\ pc = "tick"
    /\ runstate.name = "PlayerTurn"
    /\ ThePlayer \in ecs.entity_moved
    /\ ecs.position[ThePlayer] # StartingPosition
    /\ ecs.viewshed[ThePlayer].dirty

\* C8: a MonsterAISystem pass made while the run state is not MonsterTurn
\* changes no Position, Viewshed, MonsterAI, Confusion or WantsToMelee.
C8_AIOnlyInMonsterTurn ==
    [][pc = "MonsterAI" /\ runstate # RS("MonsterTurn") =>
          /\ ecs'.position = ecs.position
          /\ ecs'.viewshed = ecs.viewshed
          /\ ecs'.monster_ai = ecs.monster_ai
          /\ ecs'.confusion = ecs.confusion
          /\ ecs'.wants_to_melee = ecs.wants_to_melee]_vars

\* The AI pass of a player turn is over with a goblin that sees the player
\* and has been given no attack intent.
C8_Witness ==
    /\ pc = "Trigger"
    /\ runstate.name = "PlayerTurn"
    /\ Goblin \in MonsterJoin(ecs)
    /\ player_pt \in ecs.viewshed[Goblin].visible_tiles
    /\ Goblin \notin DOMAIN ecs.wants_to_melee

\* Two points at most one tile apart in both directions: distance below 1.5
Adjacent(p, q) == Abs(p.x - q.x) <= 1 /\ Abs(p.y - q.y) <= 1

\* C9: in a MonsterTurn pass an unconfused monster that sees the player at
\* distance below 1.5 ends the pass with a WantsToMelee whose target is the
\* player entity, and with its Position and dirty flag unchanged.
C9_AdjacentMonsterAttacks ==
    [][pc = "MonsterAI" /\ runstate = RS("MonsterTurn") =>
          \A ent \in MonsterJoin(ecs) :
              (/\ ent \notin DOMAIN ecs.confusion
               /\ player_pt \in ecs.viewshed[ent].visible_tiles
               /\ Adjacent(ecs.position[ent], player_pt)) =>
                  /\ ent \in DOMAIN ecs'.wants_to_melee
                  /\ ecs'.wants_to_melee[ent] = [target |-> player_entity]
                  /\ ecs'.position[ent] = ecs.position[ent]
                  /\ ecs'.viewshed[ent].dirty = ecs.viewshed[ent].dirty]_vars

\* The AI pass of a monster turn is over and the goblin, next to the player,
\* wants to attack.
C9_Witness ==
    /\ pc = "Trigger"
    /\ runstate.name = "MonsterTurn"
    /\ Goblin \in DOMAIN ecs.wants_to_melee
    /\ Adjacent(ecs.position[Goblin], player_pt)
    /\ player_pt \in ecs.viewshed[Goblin].visible_tiles

RECURSIVE Reach(_, _)
\* The tiles that can be walked to from the tiles S over valid exits
Reach(m, S) ==
    LET T == S \cup {e[1] : e \in UNION {get_available_exits(m, i) : i \in S}}
    IN IF T = S THEN S ELSE Reach(m, T)

\* C10: in a MonsterTurn pass an unconfused monster whose target point is at
\* distance 1.5 or more gains no attack intent; if a path to the target exists
\* it moves exactly one tile, to a neighbour inside the grid that is not Wall
\* and not flagged blocked and from which the path goes on, and its Viewshed
\* is dirty; if no path exists its Position and Viewshed are unchanged.
C10_ChaseStep ==
    [][pc = "MonsterAI" /\ runstate = RS("MonsterTurn") =>
          \A ent \in MonsterJoin(ecs) :
              LET tp == ai_target(ecs, player_pt, ent)
                  pos == ecs.position[ent]
                  new == ecs'.position[ent]
              IN (/\ ent \notin DOMAIN ecs.confusion
                  /\ tp # None
                  /\ ~Adjacent(pos, TheSome(tp))) =>
                     /\ (ent \in DOMAIN ecs'.wants_to_melee)
                            = (ent \in DOMAIN ecs.wants_to_melee)
                     /\ IF PtIdx(TheSome(tp)) \in Reach(map, {PtIdx(pos)})
                        THEN /\ new # pos
                             /\ Adjacent(pos, new)
                             /\ InMap(new.x, new.y)
                             /\ map.tiles[PtIdx(new)] # Wall
                             /\ PtIdx(new) \notin map.blocked
                             /\ PtIdx(TheSome(tp)) \in Reach(map, {PtIdx(new)})
                             /\ ecs'.viewshed[ent].dirty
                        ELSE /\ new = pos
                             /\ ecs'.viewshed[ent] = ecs.viewshed[ent]]_vars

\* The AI pass of a monster turn is over and the goblin has made a step
\* towards a target that was not next to it.
C10_Witness ==
    /\ pc = "Trigger"
    /\ runstate.name = "MonsterTurn"
    /\ Goblin \in MonsterJoin(ecs)
    /\ ecs.viewshed[Goblin].dirty
    /\ ecs.monster_ai[Goblin].target_point # None

\* C11: in a MonsterTurn pass a monster with Confusion{turns: n}, n >= 1, does
\* not move, does not update its remembered target point and emits no
\* WantsToMelee; its counter drops to n - 1, and the component is removed in
\* the pass in which the counter reaches zero, so that n passes are skipped;
\* a monster without Confusion acts: it takes the player's point as target
\* when it sees the player.
C11_ConfusionSkipsTurns ==
    [][pc = "MonsterAI" /\ runstate = RS("MonsterTurn") =>
          \A ent \in MonsterJoin(ecs) :
              IF ent \in DOMAIN ecs.confusion
              THEN LET n == ecs.confusion[ent].turns
                   IN /\ n >= 1
                      /\ ecs'.position[ent] = ecs.position[ent]
                      /\ ecs'.viewshed[ent] = ecs.viewshed[ent]
                      /\ ecs'.monster_ai[ent] = ecs.monster_ai[ent]
                      /\ (ent \in DOMAIN ecs'.wants_to_melee)
                             = (ent \in DOMAIN ecs.wants_to_melee)
                      /\ IF n = 1 THEN ent \notin DOMAIN ecs'.confusion
                         ELSE /\ ent \in DOMAIN ecs'.confusion
                              /\ ecs'.confusion[ent].turns = n - 1
              ELSE /\ ent \notin DOMAIN ecs'.confusion
                   /\ player_pt \in ecs.viewshed[ent].visible_tiles =>
                          ecs'.monster_ai[ent].target_point = Some(player_pt)]_vars

\* The goblin has lost its Confusion in the pass just made, which it skipped:
\* it sees the player and has taken no target.
C11_Witness ==
    /\ pc = "Trigger"
    /\ runstate.name = "MonsterTurn"
    /\ Goblin \in MonsterJoin(ecs)
    /\ Goblin \notin DOMAIN ecs.confusion
    /\ player_pt \in ecs.viewshed[Goblin].visible_tiles
    /\ ecs.monster_ai[Goblin].target_point = None

\* The amounts the combat pass queues against x: for every attacker whose
\* attack on x resolves, in the order of the join, its power plus the power
\* bonuses of the items it has equipped, less x's defense and the defense
\* bonuses of the items x has equipped, when that is positive
RECURSIVE Blows(_, _, _)
Blows(e, x, todo) ==
    IF todo = <<>> THEN <<>>
    ELSE LET ent == Head(todo)
             power == e.combat_stats[ent].power
                      + SumOver([i \in DOMAIN e.melee_power_bonus |->
                                    e.melee_power_bonus[i].power],
                                {i \in DOMAIN e.melee_power_bonus :
                                    i \in DOMAIN e.equipped /\ e.equipped[i].owner = ent})
             defense == e.combat_stats[x].defense
                        + SumOver([i \in DOMAIN e.defense_bonus |->
                                      e.defense_bonus[i].defense],
                                  {i \in DOMAIN e.defense_bonus :
                                      i \in DOMAIN e.equipped /\ e.equipped[i].owner = x})
         IN (IF power - defense > 0 THEN <<power - defense>> ELSE <<>>)
                \o Blows(e, x, Tail(todo))

\* The attackers of the melee join whose attack on x resolves
Resolvers(e, x) ==
    {ent \in MeleeJoin(e) :
        /\ e.wants_to_melee[ent].target = x
        /\ e.combat_stats[ent].hp > 0
        /\ x \in DOMAIN e.combat_stats
        /\ e.combat_stats[x].hp > 0
        /\ x \in DOMAIN e.name}

\* C12: the combat pass appends to the SufferDamage of every target, for each
\* resolved attack on it, the amount (attacker.power + offensive_bonus) -
\* (target.defense + defensive_bonus) when it is positive and nothing when it
\* is zero or less, the bonuses being the sums over the equipped items of the
\* attacker and of the target; power 5 against defense 1 without equipment
\* gives 4.
C12_MeleeDamage ==
    [][pc = "MeleeCombat" =>
          \A x \in ecs.entities :
              Pending(ecs'.suffer_damage, x)
                  = Pending(ecs.suffer_damage, x)
                        \o Blows(ecs, x, SetToSeq(Resolvers(ecs, x)))]_vars

\* The combat pass is over in which the goblin could not hurt the player, who
\* carries the tower shield, and nothing was queued against the player.
C12_Witness ==
    /\ pc = "Damage"
    /\ ThePlayer \in ecs.entities
    /\ TowerShield \in DOMAIN ecs.equipped
    /\ ThePlayer \notin DOMAIN ecs.suffer_damage
    /\ \E i \in DOMAIN gamelog : gamelog[i] = "Goblin is unable to hurt Player"

\* C13: the combat pass resolves (with a log entry, and damage when it is
\* positive) the attack of every entity that has hp > 0 and a WantsToMelee
\* whose target has CombatStats with hp > 0 and a Name, and no other; an
\* entity that is the target of no such attack has nothing queued against it.
C13_AttacksResolved ==
    [][pc = "MeleeCombat" =>
          LET resolved ==
                  {ent \in DOMAIN ecs.wants_to_melee :
                      /\ ent \in DOMAIN ecs.combat_stats
                      /\ ecs.combat_stats[ent].hp > 0
                      /\ ecs.wants_to_melee[ent].target \in DOMAIN ecs.combat_stats
                      /\ ecs.combat_stats[ecs.wants_to_melee[ent].target].hp > 0
                      /\ ecs.wants_to_melee[ent].target \in DOMAIN ecs.name}
          IN /\ Len(gamelog') = Len(gamelog) + Cardinality(resolved)
             /\ \A x \in ecs.entities \cup {ecs.wants_to_melee[ent].target :
                                               ent \in DOMAIN ecs.wants_to_melee} :
                    (\A ent \in resolved : ecs.wants_to_melee[ent].target # x) =>
                        Pending(ecs'.suffer_damage, x) = Pending(ecs.suffer_damage, x)
             /\ \A ent \in resolved :
                    \E i \in (Len(gamelog) + 1) .. Len(gamelog') :
                        \E rest \in {" is unable to hurt ", " hits "} :
                            SubSeq(gamelog'[i], 1, Len(ecs.name[ent] \o rest))
                                = ecs.name[ent] \o rest]_vars

\* The combat pass of a monster turn is over in which the goblin, standing
\* next to its target point, attacked the player entity that no longer
\* exists: nothing was queued.
C13_Witness ==
    /\ pc = "Damage"
    /\ runstate.name = "MonsterTurn"
    /\ ThePlayer \notin ecs.entities
    /\ Goblin \in MonsterJoin(ecs)
    /\ Goblin \notin DOMAIN ecs.confusion
    /\ ecs.monster_ai[Goblin].target_point # None
    /\ ~ecs.viewshed[Goblin].dirty
    /\ Adjacent(ecs.position[Goblin], TheSome(ecs.monster_ai[Goblin].target_point))
    /\ ecs.suffer_damage = Empty

\* The entities that carry EntityMoved and Position
Movers(e) == e.entity_moved \cap DOMAIN e.position

\* The traps that `ent` sets off: the entities other than `ent` that the
\* tile-content index lists on the tile of `ent` and that carry EntryTrigger,
\* in the order of the list
TrapsUnder(e, m, ent) ==
    LET fires(other) == other # ent /\ other \in e.entry_trigger
    IN SelectSeq(m.tile_content[PtIdx(e.position[ent])], fires)

\* The InflictsDamage amounts of the traps of `traps` that have one
RECURSIVE TrapDamage(_, _)
TrapDamage(e, traps) ==
    IF traps = <<>> THEN <<>>
    ELSE (IF Head(traps) \in DOMAIN e.inflicts_damage
          THEN <<e.inflicts_damage[Head(traps)]>> ELSE <<>>)
             \o TrapDamage(e, Tail(traps))

\* C14: the trigger pass queues, on every entity with EntityMoved and
\* Position, the InflictsDamage amounts of the other entities with
\* EntryTrigger that the tile-content index lists on its tile, and queues
\* nothing on any other entity (so never on a trap that did not move); it
\* removes the Hidden tag of exactly those traps, with or without damage; an
\* entity does not trigger itself and entities without EntryTrigger have no
\* effect.
C14_TriggerDamagesMover ==
    [][pc = "Trigger" =>
          /\ \A x \in ecs.entities :
                 Pending(ecs'.suffer_damage, x)
                     = Pending(ecs.suffer_damage, x)
                           \o (IF x \in Movers(ecs)
                               THEN TrapDamage(ecs, TrapsUnder(ecs, map, x))
                               ELSE <<>>)
          /\ ecs'.hidden
                 = ecs.hidden \ UNION {Range(TrapsUnder(ecs, map, x)) : x \in Movers(ecs)}
          /\ ecs'.entry_trigger = ecs.entry_trigger]_vars

\* The trigger pass is over in which the player stepped on the bear trap: the
\* trap's damage is queued on the player, none on the trap, and the trap is
\* no longer hidden.
C14_Witness ==
    /\ pc = "PeriodicHiding"
    /\ Pending(ecs.suffer_damage, ThePlayer) = <<BearTrapDamage>>
    /\ BearTrap \in ecs.entities
    /\ BearTrap \notin DOMAIN ecs.suffer_damage
    /\ BearTrap \notin ecs.hidden
    /\ ecs.position[ThePlayer] = ecs.position[BearTrap]

\* The traps set off in a trigger pass
Sprung(e, m) == UNION {Range(TrapsUnder(e, m, x)) : x \in Movers(e)}

C16_MovesAttachEntityMoved ==
    [][/\ \A ent \in (DOMAIN ecs.position) \cap (DOMAIN ecs'.position) :
              ecs'.position[ent] # ecs.position[ent] => ent \in ecs'.entity_moved
       /\ pc = "Trigger" /\ runstate = RS("MonsterTurn") =>
              \A ent \in MonsterJoin(ecs) :
                  (/\ ecs.viewshed[ent].dirty
                   /\ \E trap \in ecs.entry_trigger \cap DOMAIN ecs.inflicts_damage :
                          /\ trap \in DOMAIN ecs.position
                          /\ ecs.position[trap] = ecs.position[ent]) =>
                      Pending(ecs'.suffer_damage, ent) # <<>>]_vars

\* C17: a pass of the periodic hiding system sets the counter of every entity
\* with PeriodicHiding to (offset + 1) mod period, which lies in 0 ..
\* period - 1, whether or not the trap has just been sprung; exactly when the
\* new counter is 0 the tags switch: an entity that had Hidden ends with
\* EntryTrigger and without Hidden, any other ends with Hidden and without
\* EntryTrigger; in every other case the pass leaves Hidden and EntryTrigger
\* as they were.
C17_PeriodicOffset ==
    [][pc = "PeriodicHiding" =>
          /\ DOMAIN ecs'.periodic_hiding = DOMAIN ecs.periodic_hiding
          /\ \A x \in ecs.entities :
                LET had == x \in ecs.hidden
                    same == /\ (x \in ecs'.hidden) = had
                            /\ (x \in ecs'.entry_trigger) = (x \in ecs.entry_trigger)
                IN IF x \in DOMAIN ecs.periodic_hiding
                   THEN LET old == ecs.periodic_hiding[x]
                            new == ecs'.periodic_hiding[x]
                        IN /\ new.period = old.period
                           /\ new.offset = (old.offset + 1) % old.period
                           /\ new.offset \in 0 .. (old.period - 1)
                           /\ IF new.offset = 0
                              THEN IF had
                                   THEN x \in ecs'.entry_trigger /\ x \notin ecs'.hidden
                                   ELSE x \in ecs'.hidden /\ x \notin ecs'.entry_trigger
                              ELSE same
                   ELSE same]_vars

\* The pass is over in which the counter of the periodic trap wrapped just
\* after the player had sprung the trap: the trap, shown by the trigger pass
\* and marked for deletion, is hidden again and without its trigger.
C17_Witness ==
    /\ pc = "MapIndexing"
    /\ PeriodicTrap \in ecs.entities
    /\ PeriodicTrap \in ecs.killed
    /\ ecs.periodic_hiding[PeriodicTrap].offset = 0
    /\ PeriodicTrap \in ecs.hidden
    /\ PeriodicTrap \notin ecs.entry_trigger
    /\ Pending(ecs.suffer_damage, ThePlayer) = <<PeriodicTrapDamage>>

\* The periodic traps of the world
PeriodicTraps(e) == e.entities \cap DOMAIN e.periodic_hiding

C19_ViewshedsClean ==
    [][pc = "Visibility" =>
          \A ent \in VisibilityJoin(ecs) :
              /\ ~ecs'.viewshed[ent].dirty
              /\ \A p \in ecs'.viewshed[ent].visible_tiles :
                     p.x >= 0 /\ p.x < map.width /\ p.y >= 0 /\ p.y < map.height
              /\ ~ecs.viewshed[ent].dirty =>
                     ecs'.viewshed[ent].visible_tiles = ecs.viewshed[ent].visible_tiles]_vars

\* The visibility pass of a player turn is over in which the player had
\* stepped off the starting position: the player's Viewshed, dirty before, is
\* clean and holds the player's tile, and so is the goblin's, clean before.
C19_Witness ==
    /\ pc = "MonsterAI"
    /\ runstate.name = "PlayerTurn"
    /\ ThePlayer \in ecs.entity_moved
    /\ ecs.position[ThePlayer] # StartingPosition
    /\ ~ecs.viewshed[ThePlayer].dirty
    /\ Pt(ecs.position[ThePlayer].x, ecs.position[ThePlayer].y)
           \in ecs.viewshed[ThePlayer].visible_tiles
    /\ Goblin \in VisibilityJoin(ecs)
    /\ ~ecs.viewshed[Goblin].dirty

\* C20: a pass of the visibility system that recomputes the dirty Viewshed of
\* the entity with Player makes the visible tiles of the map exactly the
\* tiles of that Viewshed's new visible set, adds them to the revealed tiles
\* without removing any, and removes Hidden only from entities with a
\* RevealChance on those tiles; a pass that recomputes no Viewshed of a
\* Player, whatever other Viewsheds it recomputes, leaves the visible and
\* revealed tiles of the map and every Hidden tag unchanged.
C20_PlayerViewRevealsMap ==
    [][pc = "Visibility" =>
          IF DirtyPlayers(ecs) # {}
          THEN \A ent \in DirtyPlayers(ecs) :
                  LET seen == {PtIdx(p) : p \in ecs'.viewshed[ent].visible_tiles}
                  IN /\ map'.visible_tiles = seen
                     /\ map'.revealed_tiles = map.revealed_tiles \cup seen
                     /\ ecs'.hidden \subseteq ecs.hidden
                     /\ \A x \in ecs.hidden \ ecs'.hidden :
                            /\ x \in DOMAIN ecs.reveal_chance
                            /\ \E idx \in seen : x \in Range(map.tile_content[idx])
          ELSE /\ map'.visible_tiles = map.visible_tiles
               /\ map'.revealed_tiles = map.revealed_tiles
               /\ ecs'.hidden = ecs.hidden]_vars

\* The visibility pass of a player turn is over in which the player had
\* moved and the goblin had moved in the monster turn before: the map shows
\* what the player sees, which is not all that the goblin sees, and
\* remembers tiles the player no longer sees.
C20_Witness ==
    /\ pc = "MonsterAI"
    /\ runstate.name = "PlayerTurn"
    /\ turns >= 1
    /\ ThePlayer \in ecs.entity_moved
    /\ ~ecs.viewshed[ThePlayer].dirty
    /\ map.visible_tiles = {PtIdx(p) : p \in ecs.viewshed[ThePlayer].visible_tiles}
    /\ map.visible_tiles \subseteq map.revealed_tiles
    /\ map.revealed_tiles # map.visible_tiles
    /\ Goblin \in VisibilityJoin(ecs)
    /\ ~ecs.viewshed[Goblin].dirty
    /\ ~({PtIdx(p) : p \in ecs.viewshed[Goblin].visible_tiles} \subseteq map.visible_tiles)

\* C21: a pass of the visibility system that recomputes the player's
\* viewshed rolls exactly one die for each entity that the tile-content index
\* lists on a tile of the new visible set and that has Hidden and a
\* RevealChance, rolls for no other entity, and removes Hidden from none but
\* entities rolled for.
C21_RolledOnce ==
    [][pc = "Visibility" =>
          /\ DOMAIN rolls' = RevealCandidates(ecs, map)
          /\ \A x \in DOMAIN rolls' : rolls'[x] = 1
          /\ ecs.hidden \ ecs'.hidden \subseteq DOMAIN rolls']_vars

\* The tiles of row y of the map
RowIdxs(y) == {idx \in Idxs : IdxY(idx) = y}

\* C22: the run state becomes MagicMapReveal only with row 0; a tick in
\* MagicMapReveal{row} has 0 <= row < MAP_HEIGHT, adds exactly the tiles of
\* row `row` to the revealed tiles, and goes to MagicMapReveal{row + 1}, or
\* to MonsterTurn when row = MAP_HEIGHT - 1; in MagicMapReveal{row} the rows
\* before `row` are revealed. So the state is left after MAP_HEIGHT ticks
\* with every tile revealed.
C22_MagicMapReveal ==
    /\ [][/\ runstate'.name = "MagicMapReveal" /\ runstate.name # "MagicMapReveal" =>
                runstate'.row = 0
          /\ pc = "tick" /\ runstate.name = "MagicMapReveal" =>
                /\ runstate.row \in 0 .. (MAP_HEIGHT - 1)
                /\ map'.revealed_tiles = map.revealed_tiles \cup RowIdxs(runstate.row)
                /\ map'.tiles = map.tiles
                /\ runstate' = IF runstate.row = MAP_HEIGHT - 1 THEN RS("MonsterTurn")
                               ELSE MagicMapReveal(runstate.row + 1)
                /\ runstate'.name = "MonsterTurn" => map'.revealed_tiles = Idxs]_vars
    /\ [](pc = "tick" /\ runstate.name = "MagicMapReveal" =>
              \A y \in 0 .. (runstate.row - 1) : RowIdxs(y) \subseteq map.revealed_tiles)

\* The tick that revealed the last row is over: the monsters' turn is next
\* and the whole map is revealed, a part of which the player has not seen.
C22_Witness ==
    /\ pc = "tick"
    /\ runstate = RS("MonsterTurn")
    /\ newrunstate = MagicMapReveal(MAP_HEIGHT - 1)
    /\ map.revealed_tiles = Idxs
    /\ map.visible_tiles # Idxs

\* The entities a level change carries over: those with Player and those in
\* the backpack of, or equipped by, the player entity
CarriedOver(e, pe) ==
    {x \in e.entities :
        \/ x \in e.player
        \/ x \in DOMAIN e.in_backpack /\ e.in_backpack[x].owner = pe
        \/ x \in DOMAIN e.equipped /\ e.equipped[x].owner = pe}

\* C23: a tick in NextLevel removes every entity of the world but those
\* carried over, which keep their InBackpack and Equipped components,
\* installs a fresh map (nothing revealed or visible) of depth one more than
\* before, puts the Position of the player entity and the player point on
\* the builder's starting position, leaves the player's Viewshed dirty, sets
\* the player's hp to the larger of hp and max_hp / 2, and ends in PreRun.
C23_NextLevel ==
    [][pc = "tick" /\ runstate.name = "NextLevel" =>
          LET pe == player_entity
              keep == CarriedOver(ecs, pe)
          IN /\ ecs'.entities \cap ecs.entities = keep
             /\ \A x \in keep \cap DOMAIN ecs.in_backpack :
                    x \in DOMAIN ecs'.in_backpack /\ ecs'.in_backpack[x] = ecs.in_backpack[x]
             /\ \A x \in keep \cap DOMAIN ecs.equipped :
                    x \in DOMAIN ecs'.equipped /\ ecs'.equipped[x] = ecs.equipped[x]
             /\ map'.depth = map.depth + 1
             /\ map'.revealed_tiles = {} /\ map'.visible_tiles = {}
             /\ ecs'.position[pe] = StartingPosition
             /\ player_pt' = StartingPosition
             /\ ecs'.viewshed[pe].dirty
             /\ ecs'.combat_stats[pe].hp
                    = Max(ecs.combat_stats[pe].hp, ecs.combat_stats[pe].max_hp \div 2)
             /\ ecs'.combat_stats[pe].hp >= ecs.combat_stats[pe].hp
             /\ runstate' = RS("PreRun")]_vars

\* The tick that took the wounded player down the stairs is over: the player
\* is healed to half the maximum and stands on the starting position of the
\* second level with the scroll of the backpack; goblin and bear trap of the
\* first level are gone and a goblin of the new level is there.
C23_Witness ==
    /\ pc = "tick"
    /\ runstate = RS("PreRun")
    /\ newrunstate = RS("NextLevel")
    /\ map.depth = 2
    /\ ecs.combat_stats[ThePlayer].hp = PlayerMaxHp \div 2
    /\ ecs.position[ThePlayer] = StartingPosition
    /\ Scroll \in ecs.entities
    /\ Goblin \notin ecs.entities
    /\ BearTrap \notin ecs.entities
    /\ NextGoblin \in ecs.entities

\* C30: for every tile index of the map, get_available_exits gives at most 8
\* exits to distinct tiles of the map, each next to the given tile, at cost
\* 1.0 if it shares the row or the column and 1.45 otherwise, and none of
\* them a Wall or flagged blocked.
C30_AvailableExits ==
    \A idx \in Idxs :
        LET exits == get_available_exits(map, idx)
        IN /\ Cardinality(exits) <= 8
           /\ Cardinality({e[1] : e \in exits}) = Cardinality(exits)
           /\ \A e \in exits :
                 /\ e[1] \in Idxs
                 /\ e[1] # idx
                 /\ Abs(IdxX(e[1]) - IdxX(idx)) <= 1
                 /\ Abs(IdxY(e[1]) - IdxY(idx)) <= 1
                 /\ e[2] = IF IdxX(e[1]) = IdxX(idx) \/ IdxY(e[1]) = IdxY(idx)
                           THEN 100 ELSE 145
                 /\ e[1] \notin map.blocked
                 /\ map.tiles[e[1]] # Wall

\* ------------------------------------------------------------ map builders

\* The map a builder starts from (Map::new): every tile Wall, nothing
\* blocked, as in Map::new_map_rooms_and_corridors
BlankMap(w, h) ==
    [width |-> w,
     height |-> h,
     tiles |-> [i \in 0 .. (w * h) - 1 |-> Wall],
     blocked |-> {}]

\* The tiles the builders' loops `1..height - 1`, `1..width - 1` visit
Interior(m) ==
    {i \in DOMAIN m.tiles :
        /\ i % m.width >= 1 /\ i % m.width <= m.width - 2
        /\ i \div m.width >= 1 /\ i \div m.width <= m.height - 2}

\* The world while a map is being built (State::init_resources)
BuilderIdle ==
    /\ ecs = EmptyWorld
    /\ map = NewMap(1)
    /\ runstate = RS("MapGeneration")
    /\ player_pt = Pt(0, 0)
    /\ player_entity = ThePlayer
    /\ gamelog = <<>>
    /\ pc = "tick"
    /\ newrunstate = RS("MapGeneration")
    /\ ran = <<>>
    /\ turns = 0
    /\ rolls = Empty
    /\ savegame = None

\* ------------------------------------------- CellularAutomataBuilder

\* The iterations of the automaton
CA_ITERATIONS == 15
\* The depth the builder's Dijkstra map stops at, in hundredths
CA_MAX_DEPTH == 20000
\* std::f32::MAX, the distance of a tile the Dijkstra map never reached
F32_MAX == 1000000

\* A neighbor count that looks twice to the upper left and never to the
\* upper right
dangerously_count_neighbors_skewed(m, idx) ==
    LET w == m.width
        wall(i) == IF m.tiles[i] = Wall THEN 1 ELSE 0
    IN  wall(idx - 1) + wall(idx + 1) + wall(idx - w) + wall(idx + w)
        + wall(idx - (w + 1)) + wall(idx - (w + 1))
        + wall(idx + (w - 1)) + wall(idx + (w + 1))

\* CellularAutomataBuilder::dangerously_count_neighbors
dangerously_count_neighbors(m, idx) ==
    LET w == m.width
        wall(i) == IF m.tiles[i] = Wall THEN 1 ELSE 0
    IN  wall(idx - 1) + wall(idx + 1) + wall(idx - w) + wall(idx + w)
        + wall(idx - (w - 1)) + wall(idx - (w + 1))
        + wall(idx + (w - 1)) + wall(idx + (w + 1))

\* One pass of the automaton: newtiles is a clone of the tiles, written from
\* counts taken on the tiles of the pass before
ca_iterate(m) ==
    [m EXCEPT !.tiles =
        [i \in DOMAIN m.tiles |->
            IF i \notin Interior(m) THEN m.tiles[i]
            ELSE IF dangerously_count_neighbors(m, i) > 4
                    \/ dangerously_count_neighbors(m, i) = 0 THEN Wall
            ELSE Floor]]

\* "Clear out lonely pillars"
ca_clear_pillars(m) ==
    [m EXCEPT !.tiles =
        [i \in DOMAIN m.tiles |->
            IF i \in Interior(m) /\ dangerously_count_neighbors(m, i) < 2 THEN Floor
            ELSE m.tiles[i]]]

\* "Walk left until we find an open tile": the number of steps to the left
\* of the middle tile `c` at which the walk stops, over the tile indices
\* y * width + x it reads; empty when it runs off the front of the tiles
ca_walk_left(m, c) ==
    LET open == {k \in 0 .. c : m.tiles[c - k] = Floor}
    IN IF open = {} THEN {} ELSE {CHOOSE k \in open : \A k2 \in open : k <= k2}

RECURSIVE DijkstraRelax(_, _, _)
\* The distances rltk::DijkstraMap settles on: from the starts outwards over
\* get_available_exits, no further than max_depth
DijkstraRelax(m, max_depth, d) ==
    LET into(i) == UNION {{d[j] + e[2] : e \in {e \in get_available_exits(m, j) : e[1] = i}} :
                            j \in {j \in DOMAIN d : d[j] < F32_MAX}}
        near(i) == {c \in into(i) : c < max_depth /\ c < d[i]}
        step == [i \in DOMAIN d |->
                   IF near(i) = {} THEN d[i]
                   ELSE CHOOSE c \in near(i) : \A c2 \in near(i) : c <= c2]
    IN IF step = d THEN d ELSE DijkstraRelax(m, max_depth, step)

\* rltk::DijkstraMap::new(width, height, starts, map, max_depth)
DijkstraMap(m, starts, max_depth) ==
    DijkstraRelax(m, max_depth,
                  [i \in DOMAIN m.tiles |-> IF i \in starts THEN 0 ELSE F32_MAX])

RECURSIVE ca_exit_scan(_, _, _, _)
\* The loop over the tiles that picks the exit: the Floor tile farther from
\* the start than every tile before it
ca_exit_scan(m, d, i, exit_tile) ==
    IF i \notin DOMAIN m.tiles THEN exit_tile
    ELSE IF m.tiles[i] = Floor /\ d[i] # F32_MAX /\ d[i] > exit_tile[2]
         THEN ca_exit_scan(m, d, i + 1, <<i, d[i]>>)
    ELSE ca_exit_scan(m, d, i + 1, exit_tile)

\* The end of build: Floor the Dijkstra map never reached becomes Wall, the
\* exit tile becomes DownStairs
ca_place_exit(m, start_idx) ==
    LET d == DijkstraMap(m, {start_idx}, CA_MAX_DEPTH)
        exit_tile == ca_exit_scan(m, d, 0, <<0, 0>>)
    IN [m EXCEPT !.tiles =
          [i \in DOMAIN m.tiles |->
              IF i = exit_tile[1] THEN DownStairs
              ELSE IF m.tiles[i] = Floor /\ d[i] = F32_MAX THEN Wall
              ELSE m.tiles[i]]]

\* CellularAutomataBuilder::new
NewCellularAutomataBuilder(w, h) ==
    [kind |-> "cellular_automata",
     at |-> "seed",
     map |-> BlankMap(w, h),
     starting_position |-> Pt(0, 0),
     iteration |-> 0]

\* build: "Completely randomize the map": each interior tile Floor or Wall
\* by its roll
CaSeed ==
    /\ builder.kind = "cellular_automata" /\ builder.at = "seed"
    /\ \E floor \in SUBSET Interior(builder.map) :
          builder' = [builder EXCEPT
                        !.map.tiles = [i \in DOMAIN builder.map.tiles |->
                                         IF i \in floor THEN Floor ELSE Wall],
                        !.at = "iterate"]
    /\ UNCHANGED game_vars

\* build: one turn of `for _i in 0..15`
CaIterate ==
    /\ builder.kind = "cellular_automata" /\ builder.at = "iterate"
    /\ builder.iteration < CA_ITERATIONS
    /\ builder' = [builder EXCEPT !.map = ca_iterate(builder.map),
                                  !.iteration = builder.iteration + 1]
    /\ UNCHANGED game_vars

\* build: the pillars pass that follows the last iteration
CaClearPillars ==
    /\ builder.kind = "cellular_automata" /\ builder.at = "iterate"
    /\ builder.iteration = CA_ITERATIONS
    /\ builder' = [builder EXCEPT !.map = ca_clear_pillars(builder.map),
                                  !.at = "start"]
    /\ UNCHANGED game_vars

\* build: "Find a starting point".  A walk that leaves the row on the left
\* overflows in xy_idx, which panics in a build with overflow checks and
\* wraps to the row above in one without; a walk that leaves the tiles
\* panics in both.
CaFindStart ==
    /\ builder.kind = "cellular_automata" /\ builder.at = "start"
    /\ LET m == builder.map
           x == m.width \div 2
           y == m.height \div 2
           stop == ca_walk_left(m, (y * m.width) + x)
       IN \/ /\ stop # {}
             /\ \E k \in stop :
                   builder' = [builder EXCEPT !.starting_position = Pt(x - k, y),
                                              !.at = "exit"]
          \/ /\ stop = {} \/ \E k \in stop : k > x
             /\ builder' = [builder EXCEPT !.at = "panicked"]
    /\ UNCHANGED game_vars

\* build: the Dijkstra map from the start, the cull and the exit
CaPlaceExit ==
    /\ builder.kind = "cellular_automata" /\ builder.at = "exit"
    /\ LET p == builder.starting_position
       IN builder' = [builder EXCEPT
                        !.map = ca_place_exit(builder.map, (p.y * builder.map.width) + p.x),
                        !.at = "done"]
    /\ UNCHANGED game_vars

InitCellularAutomata ==
    /\ BuilderIdle
    /\ builder = NewCellularAutomataBuilder(CaveWidth, CaveHeight)

NextCellularAutomata ==
    \/ CaSeed
    \/ CaIterate
    \/ CaClearPillars
    \/ CaFindStart
    \/ CaPlaceExit

\* CellularAutomataBuilder::build_map on a map of CaveWidth by CaveHeight
SpecCellularAutomata == InitCellularAutomata /\ [][NextCellularAutomata]_vars


\* ------------------------------------------------------------------ Rect

\* Rect::new
Rect(x, y, w, h) == [x1 |-> x, y1 |-> y, x2 |-> x + w, y2 |-> y + h]

\* Rect::intersect
intersect(r, other) ==
    r.x1 <= other.x2 /\ r.x2 >= other.x1 /\ r.y1 <= other.y2 /\ r.y2 >= other.y1

\* Rect::center
center(r) == Pt((r.x1 + r.x2) \div 2, (r.y1 + r.y2) \div 2)

\* ---------------------------------------- Map::new_map_rooms_and_corridors

MAX_ROOMS == 30
MIN_SIZE == 6
MAX_SIZE == 10

\* Writes `tile` to tiles[idx]; an index outside the tiles panics in Rust and
\* no map with such a write is built here
SetTile(m, idx, tile) == [m EXCEPT !.tiles[idx] = tile]

\* Floor on every tile of the rectangle, its lower bounds included
apply_room_to_map_from_corner(m, room) ==
    [m EXCEPT !.tiles =
        [i \in DOMAIN m.tiles |->
            IF /\ i % m.width >= room.x1 /\ i % m.width <= room.x2
               /\ i \div m.width >= room.y1 /\ i \div m.width <= room.y2
            THEN Floor ELSE m.tiles[i]]]

\* Map::apply_room_to_map
apply_room_to_map(m, room) ==
    [m EXCEPT !.tiles =
        [i \in DOMAIN m.tiles |->
            IF /\ i % m.width >= room.x1 + 1 /\ i % m.width <= room.x2
               /\ i \div m.width >= room.y1 + 1 /\ i \div m.width <= room.y2
            THEN Floor ELSE m.tiles[i]]]

\* Map::apply_horizontal_tunnel
apply_horizontal_tunnel(m, x1, x2, y) ==
    [m EXCEPT !.tiles =
        [i \in DOMAIN m.tiles |->
            IF /\ \E x \in Min(x1, x2) .. Max(x1, x2) : i = (y * m.width) + x
               /\ i > 0 /\ i < m.width * m.height
            THEN Floor ELSE m.tiles[i]]]

\* Map::apply_vertical_tunnel
apply_vertical_tunnel(m, y1, y2, x) ==
    [m EXCEPT !.tiles =
        [i \in DOMAIN m.tiles |->
            IF /\ \E y \in Min(y1, y2) .. Max(y1, y2) : i = (y * m.width) + x
               /\ i > 0 /\ i < m.width * m.height
            THEN Floor ELSE m.tiles[i]]]

\* The body of `if ok`: the room, the tunnels from the room before it by the
\* flip of rng.range(0, 2), the push
rooms_accept(m, rooms, new_room, flip) ==
    LET carved == apply_room_to_map(m, new_room)
        new == center(new_room)
        prev == center(rooms[Len(rooms)])
        joined ==
            IF rooms = <<>> THEN carved
            ELSE IF flip = 1
                 THEN apply_vertical_tunnel(
                          apply_horizontal_tunnel(carved, prev.x, new.x, prev.y),
                          prev.y, new.y, new.x)
            ELSE apply_horizontal_tunnel(
                     apply_vertical_tunnel(carved, prev.y, new.y, prev.x),
                     prev.x, new.x, new.y)
    IN [map |-> joined, rooms |-> Append(rooms, new_room)]

\* The map of new_map_rooms_and_corridors before its first room
NewRoomsBuilder(w, h) ==
    [kind |-> "rooms_and_corridors",
     at |-> "rooms",
     map |-> BlankMap(w, h),
     rooms |-> <<>>,
     i |-> 0]

\* The rooms rng can draw: w and h by rng.range(MIN_SIZE, MAX_SIZE), x and y
\* by roll_dice(1, width - w - 1) - 1 and roll_dice(1, height - h - 1) - 1
RoomDraws(m) ==
    UNION {{Rect(x, y, s[1], s[2]) :
               x \in 0 .. (m.width - s[1] - 1) - 1,
               y \in 0 .. (m.height - s[2] - 1) - 1} :
           s \in (MIN_SIZE .. MAX_SIZE - 1) \X (MIN_SIZE .. MAX_SIZE - 1)}

\* The `ok` of a drawn room: it intersects none of the rooms
rooms_ok(rooms, new_room) ==
    \A k \in 1 .. Len(rooms) : ~intersect(new_room, rooms[k])

\* One turn of `for i in 0..MAX_ROOMS`: a drawn room that is not ok is
\* dropped, one that is ok is carved and joined
RoomsAttempt ==
    /\ builder.kind = "rooms_and_corridors" /\ builder.at = "rooms"
    /\ builder.i < MAX_ROOMS
    /\ \/ /\ {r \in RoomDraws(builder.map) : ~rooms_ok(builder.rooms, r)} # {}
          /\ builder' = [builder EXCEPT !.i = builder.i + 1]
       \/ \E new_room \in {r \in RoomDraws(builder.map) : rooms_ok(builder.rooms, r)} :
          \E flip \in IF builder.rooms = <<>> THEN {0} ELSE 0 .. 1 :
             LET r == rooms_accept(builder.map, builder.rooms, new_room, flip)
             IN builder' = [builder EXCEPT !.map = r.map, !.rooms = r.rooms,
                                           !.i = builder.i + 1]
    /\ UNCHANGED game_vars

\* "Add stairs to next level"
RoomsPlaceStairs ==
    /\ builder.kind = "rooms_and_corridors" /\ builder.at = "rooms"
    /\ builder.i = MAX_ROOMS
    /\ LET stairs_position == center(builder.rooms[Len(builder.rooms)])
       IN builder' = [builder EXCEPT
                        !.map = SetTile(builder.map,
                                        (stairs_position.y * builder.map.width) + stairs_position.x,
                                        DownStairs),
                        !.at = "done"]
    /\ UNCHANGED game_vars

InitRooms ==
    /\ BuilderIdle
    /\ builder = NewRoomsBuilder(RoomsWidth, RoomsHeight)

NextRooms ==
    \/ RoomsAttempt
    \/ RoomsPlaceStairs

\* Map::new_map_rooms_and_corridors on a map of RoomsWidth by RoomsHeight
SpecRooms == InitRooms /\ [][NextRooms]_vars


\* ----------------------------------------------------- BspDungeonBuilder

\* The attempts of build_map's placement loop
BSP_ATTEMPTS == 240

\* BspDungeonBuilder::add_subrects
add_subrects(rects, rect) ==
    LET width == Abs(rect.x1 - rect.x2)
        height == Abs(rect.y1 - rect.y2)
        half_width == Max(width \div 2, 1)
        half_height == Max(height \div 2, 1)
    IN rects \o <<Rect(rect.x1, rect.y1, half_width, half_height),
                  Rect(rect.x1, rect.y1 + half_height, half_width, half_height),
                  Rect(rect.x1 + half_width, rect.y1, half_width, half_height),
                  Rect(rect.x1 + half_width, rect.y1 + half_height, half_width, half_height)>>

\* BspDungeonBuilder::get_random_rect: the rects a roll can pick
get_random_rect(rects) ==
    IF Len(rects) = 1 THEN {rects[1]} ELSE {rects[idx] : idx \in 1 .. Len(rects)}

\* BspDungeonBuilder::get_random_sub_rect with its four rolls
get_random_sub_rect(rect, w_roll, h_roll, x_roll, y_roll) ==
    LET w == Max(3, w_roll - 1) + 1
        h == Max(3, h_roll - 1) + 1
        x1 == rect.x1 + (x_roll - 1)
        y1 == rect.y1 + (y_roll - 1)
    IN [x1 |-> x1, y1 |-> y1, x2 |-> x1 + w, y2 |-> y1 + h]

\* The rolls get_random_sub_rect can make for the size and the offset along
\* one axis of a rect that is `length` long
AxisRolls(length) == (1 .. Min(length, 10)) \X (1 .. 6)

\* The candidates get_random_sub_rect can return for a rect
SubRects(rect) ==
    {get_random_sub_rect(rect, xr[1], yr[1], xr[2], yr[2]) :
        xr \in AxisRolls(Abs(rect.x1 - rect.x2)),
        yr \in AxisRolls(Abs(rect.y1 - rect.y2))}

\* A placement test on the bounds of the rect itself
can_place_in_map_unexpanded(m, rect) ==
    /\ rect.x1 >= 1 /\ rect.x2 <= m.width - 2
    /\ rect.y1 >= 1 /\ rect.y2 <= m.height - 2
    /\ \A y \in rect.y1 .. rect.y2 :
       \A x \in rect.x1 .. rect.x2 : m.tiles[(y * m.width) + x] = Wall

\* BspDungeonBuilder::can_place_in_map: can_build ends true if no tile of the
\* expanded rect was out of 1..width-2 by 1..height-2 and, while can_build
\* was still true, none was found not to be Wall; the range tests of the
\* loop over a non-empty rect are those of its bounds
can_place_in_map(m, rect) ==
    LET expanded == [x1 |-> rect.x1 - 2, x2 |-> rect.x2 + 2,
                     y1 |-> rect.y1 - 2, y2 |-> rect.y2 + 2]
    IN /\ expanded.x1 >= 1 /\ expanded.x2 <= m.width - 2
       /\ expanded.y1 >= 1 /\ expanded.y2 <= m.height - 2
       /\ \A y \in expanded.y1 .. expanded.y2 :
          \A x \in expanded.x1 .. expanded.x2 : m.tiles[(y * m.width) + x] = Wall

\* The candidates of a rect that can be placed, the rolls of each axis that
\* leave the map sorted out first
PlaceableSubRects(m, rect) ==
    LET fit(axis, low, high) ==
            {r \in axis : /\ low + (r[2] - 1) - 2 >= 1
                           /\ low + (r[2] - 1) + Max(3, r[1] - 1) + 1 + 2 <= high}
        xs == fit(AxisRolls(Abs(rect.x1 - rect.x2)), rect.x1, m.width - 2)
        ys == fit(AxisRolls(Abs(rect.y1 - rect.y2)), rect.y1, m.height - 2)
    IN {c \in {get_random_sub_rect(rect, xr[1], yr[1], xr[2], yr[2]) : xr \in xs, yr \in ys} :
          can_place_in_map(m, c)}

RECURSIVE draw_corridor(_, _, _, _, _)
\* BspDungeonBuilder::draw_corridor
draw_corridor(m, x, y, x2, y2) ==
    IF x = x2 /\ y = y2 THEN m
    ELSE LET nx == IF x < x2 THEN x + 1 ELSE IF x > x2 THEN x - 1 ELSE x
             ny == IF x # x2 THEN y ELSE IF y < y2 THEN y + 1 ELSE y - 1
         IN draw_corridor(SetTile(m, (ny * m.width) + nx, Floor), nx, ny, x2, y2)

RECURSIVE sort_by_x1(_)
\* rooms.sort_by(|a, b| a.x1.cmp(&b.x1)), a stable sort
sort_by_x1(rooms) ==
    IF rooms = <<>> THEN <<>>
    ELSE LET least == CHOOSE k \in 1 .. Len(rooms) :
                         \A j \in 1 .. Len(rooms) :
                            \/ rooms[k].x1 < rooms[j].x1
                            \/ rooms[k].x1 = rooms[j].x1 /\ k <= j
         IN <<rooms[least]>>
            \o sort_by_x1(SubSeq(rooms, 1, least - 1) \o SubSeq(rooms, least + 1, Len(rooms)))

\* BspDungeonBuilder::new, and build_map up to its placement loop
NewBspDungeonBuilder(w, h) ==
    [kind |-> "bsp_dungeon",
     at |-> "rooms",
     map |-> BlankMap(w, h),
     starting_position |-> Pt(0, 0),
     rooms |-> <<>>,
     rects |-> add_subrects(<<Rect(2, 2, w - 5, h - 5)>>, Rect(2, 2, w - 5, h - 5)),
     n_rooms |-> 0,
     i |-> 0]

\* build_map: one turn of `while n_rooms < 240`
BspAttempt ==
    /\ builder.kind = "bsp_dungeon" /\ builder.at = "rooms"
    /\ builder.n_rooms < BSP_ATTEMPTS
    /\ \/ IF \E rect \in get_random_rect(builder.rects) :
             \E candidate \in SubRects(rect) : ~can_place_in_map(builder.map, candidate)
          THEN builder' = [builder EXCEPT !.n_rooms = builder.n_rooms + 1]
          ELSE FALSE
       \/ \E rect \in get_random_rect(builder.rects) :
          \E candidate \in PlaceableSubRects(builder.map, rect) :
             builder' = [builder EXCEPT
                           !.map = apply_room_to_map(builder.map, candidate),
                           !.rooms = Append(builder.rooms, candidate),
                           !.rects = add_subrects(builder.rects, rect),
                           !.n_rooms = builder.n_rooms + 1]
    /\ UNCHANGED game_vars

\* build_map: the sort that follows the loop.  With no room placed the bound
\* `self.rooms.len() - 1` of the corridor loop underflows and build_map
\* panics, there or at rooms[0].
BspSort ==
    /\ builder.kind = "bsp_dungeon" /\ builder.at = "rooms"
    /\ builder.n_rooms = BSP_ATTEMPTS
    /\ builder' = IF builder.rooms = <<>> THEN [builder EXCEPT !.at = "panicked"]
                  ELSE [builder EXCEPT !.rooms = sort_by_x1(builder.rooms),
                                       !.at = "corridors"]
    /\ UNCHANGED game_vars

\* build_map: one turn of `for i in 0..self.rooms.len() - 1`
BspCorridor ==
    /\ builder.kind = "bsp_dungeon" /\ builder.at = "corridors"
    /\ builder.i < Len(builder.rooms) - 1
    /\ LET room == builder.rooms[builder.i + 1]
           next_room == builder.rooms[builder.i + 2]
       IN \E start_x \in {room.x1 + (r - 1) : r \in 1 .. Abs(room.x1 - room.x2)} :
          \E start_y \in {room.y1 + (r - 1) : r \in 1 .. Abs(room.y1 - room.y2)} :
          \E end_x \in {next_room.x1 + (r - 1) : r \in 1 .. Abs(next_room.x1 - next_room.x2)} :
          \E end_y \in {next_room.y1 + (r - 1) : r \in 1 .. Abs(next_room.y1 - next_room.y2)} :
             builder' = [builder EXCEPT
                           !.map = draw_corridor(builder.map, start_x, start_y, end_x, end_y),
                           !.i = builder.i + 1]
    /\ UNCHANGED game_vars

\* build_map: the starting position and the stairs
BspFinish ==
    /\ builder.kind = "bsp_dungeon" /\ builder.at = "corridors"
    /\ builder.i = Len(builder.rooms) - 1
    /\ LET start == center(builder.rooms[1])
           stairs == center(builder.rooms[Len(builder.rooms)])
       IN builder' = [builder EXCEPT
                        !.starting_position = start,
                        !.map = SetTile(builder.map, (stairs.y * builder.map.width) + stairs.x,
                                        DownStairs),
                        !.at = "done"]
    /\ UNCHANGED game_vars

InitBspDungeon ==
    /\ BuilderIdle
    /\ builder = NewBspDungeonBuilder(BspWidth, BspHeight)

NextBspDungeon ==
    \/ BspAttempt
    \/ BspSort
    \/ BspCorridor
    \/ BspFinish

\* BspDungeonBuilder::build_map on a map of BspWidth by BspHeight
SpecBspDungeon == InitBspDungeon /\ [][NextBspDungeon]_vars

\* The Wall tiles among the 8 tiles around tile i, each looked at once
WallsAround(m, i) ==
    LET x == i % m.width
        y == i \div m.width
    IN Cardinality({o \in ((-1 .. 1) \X (-1 .. 1)) \ {<<0, 0>>} :
                      m.tiles[((y + o[2]) * m.width) + (x + o[1])] = Wall})

\* The tiles on the rim of the map
EdgeTiles(m) == DOMAIN m.tiles \ Interior(m)

\* C27: the cellular-automata builder runs 15 iterations, no more and no
\* fewer, before the pillars pass; in each, every interior tile becomes Wall
\* if more than 4 or none of its 8 neighbours were Wall before the iteration
\* and Floor otherwise, the 8 neighbours each counted once; the edge tiles
\* are not changed and are Wall throughout.
C27_AutomatonRule ==
    /\ [][builder.kind = "cellular_automata" =>
            /\ (builder.at = "iterate" /\ builder'.at = "iterate") =>
                 /\ builder'.iteration = builder.iteration + 1
                 /\ builder'.iteration <= CA_ITERATIONS
                 /\ \A i \in Interior(builder.map) :
                       builder'.map.tiles[i] =
                          IF WallsAround(builder.map, i) > 4
                             \/ WallsAround(builder.map, i) = 0 THEN Wall
                          ELSE Floor
                 /\ \A i \in EdgeTiles(builder.map) :
                       builder'.map.tiles[i] = builder.map.tiles[i]
            /\ (builder.at = "iterate" /\ builder'.at # "iterate") =>
                 builder.iteration = CA_ITERATIONS]_vars
    /\ [](builder.kind = "cellular_automata" /\ builder.at \in {"seed", "iterate"} =>
            \A i \in EdgeTiles(builder.map) : builder.map.tiles[i] = Wall)

\* The 15 iterations have run and left a cave
C27_Witness ==
    /\ builder.kind = "cellular_automata"
    /\ builder.at = "iterate"
    /\ builder.iteration = CA_ITERATIONS
    /\ \E i \in Interior(builder.map) : builder.map.tiles[i] = Floor
    /\ \E i \in Interior(builder.map) : builder.map.tiles[i] = Wall

\* The tiles of the closed box of a rectangle
Box(r) == (r.x1 .. r.x2) \X (r.y1 .. r.y2)

\* The tiles Floor was carved on for a room
RoomFloor(r) == (r.x1 + 1 .. r.x2) \X (r.y1 + 1 .. r.y2)

\* The two L-shaped runs of tiles from p to q
LRuns(p, q) ==
    {((Min(p.x, q.x) .. Max(p.x, q.x)) \X {p.y}) \cup ({q.x} \X (Min(p.y, q.y) .. Max(p.y, q.y))),
     ({p.x} \X (Min(p.y, q.y) .. Max(p.y, q.y))) \cup ((Min(p.x, q.x) .. Max(p.x, q.x)) \X {q.y})}

\* The tiles of the map that are DownStairs
StairsTiles(m) == {i \in DOMAIN m.tiles : m.tiles[i] = DownStairs}

\* C28: in the room-and-corridor generator at least one room is accepted; no
\* two accepted rooms intersect; every accepted room lies inside the map and
\* leaves the map-edge tiles Wall; each room accepted after the first is
\* joined to the room accepted before it by an unbroken L-shaped run of
\* carved tiles between their centres; the one DownStairs tile is the centre
\* of the last accepted room.
C28_RoomsAndCorridors ==
    builder.kind = "rooms_and_corridors" =>
       LET m == builder.map
           rooms == builder.rooms
           tile(t) == m.tiles[(t[2] * m.width) + t[1]]
       IN /\ builder.i >= 1 => Len(rooms) >= 1
          /\ \A j, k \in 1 .. Len(rooms) : j # k => Box(rooms[j]) \cap Box(rooms[k]) = {}
          /\ \A k \in 1 .. Len(rooms) :
                /\ RoomFloor(rooms[k]) \subseteq (1 .. m.width - 2) \X (1 .. m.height - 2)
                /\ \A t \in RoomFloor(rooms[k]) : tile(t) # Wall
          /\ \A i \in EdgeTiles(m) : m.tiles[i] = Wall
          /\ \A k \in 2 .. Len(rooms) :
                \E run \in LRuns(center(rooms[k - 1]), center(rooms[k])) :
                   \A t \in run : tile(t) # Wall
          /\ builder.at = "rooms" => StairsTiles(m) = {}
          /\ builder.at = "done" =>
                LET c == center(rooms[Len(rooms)])
                IN StairsTiles(m) = {(c.y * m.width) + c.x}

\* The generator has finished a map of two rooms
C28_Witness ==
    /\ builder.kind = "rooms_and_corridors"
    /\ builder.at = "done"
    /\ Len(builder.rooms) = 2

\* The tiles of a rect widened by 2 on every side
Expanded(r) == (r.x1 - 2 .. r.x2 + 2) \X (r.y1 - 2 .. r.y2 + 2)

\* C29: the BSP builder makes exactly 240 placement attempts; an attempt
\* carves a room only if every tile of the candidate's bounding box expanded
\* by 2 on each side has x in 1..width-2 and y in 1..height-2 and is Wall
\* at that moment, so that the room is at least 2 tiles away from every Floor
\* tile there is and from the map edge; an attempt that carves nothing leaves
\* the tiles alone.
C29_BspPlacement ==
    [][(builder.kind = "bsp_dungeon" /\ builder.at = "rooms") =>
          LET m == builder.map
          IN /\ builder'.at = "rooms" =>
                   /\ builder.n_rooms < BSP_ATTEMPTS
                   /\ builder'.n_rooms = builder.n_rooms + 1
                   /\ IF builder'.rooms = builder.rooms
                      THEN builder'.map = m
                      ELSE LET room == builder'.rooms[Len(builder'.rooms)]
                           IN /\ builder'.rooms = Append(builder.rooms, room)
                              /\ \A t \in Expanded(room) :
                                    /\ t[1] >= 1 /\ t[1] <= m.width - 2
                                    /\ t[2] >= 1 /\ t[2] <= m.height - 2
                                    /\ m.tiles[(t[2] * m.width) + t[1]] = Wall
                              /\ \A i \in DOMAIN m.tiles :
                                    builder'.map.tiles[i] # m.tiles[i] =>
                                       /\ <<i % m.width, i \div m.width>> \in RoomFloor(room)
                                       /\ builder'.map.tiles[i] = Floor
             /\ builder'.at # "rooms" => builder.n_rooms = BSP_ATTEMPTS]_vars

\* The 240 attempts are over and the second room was carved next to the first
C29_Witness ==
    /\ builder.kind = "bsp_dungeon"
    /\ builder.at = "rooms"
    /\ builder.n_rooms = BSP_ATTEMPTS
    /\ Len(builder.rooms) = 2

RECURSIVE Flood(_, _)
\* The tiles that can be walked to from the tiles S in steps to any of the 8
\* neighbours that is not Wall
Flood(m, S) ==
    LET more == {i \in DOMAIN m.tiles \ S :
                   /\ m.tiles[i] # Wall
                   /\ \E j \in S : /\ Abs((i % m.width) - (j % m.width)) <= 1
                                   /\ Abs((i \div m.width) - (j \div m.width)) <= 1}
    IN IF more = {} THEN S ELSE Flood(m, S \cup more)

\* The tile index of the builder's starting position
StartIdx(b) == (b.starting_position.y * b.map.width) + b.starting_position.x

\* C24: in the map a generator returns, the tile at the starting position is
\* Floor, also when only one room was generated (here: for the BSP dungeon
\* builder).
C24_StartIsFloor ==
    (builder.kind = "bsp_dungeon" /\ builder.at = "done") =>
       builder.map.tiles[StartIdx(builder)] = Floor

\* C25: in the map a generator returns, every Floor tile can be walked to
\* from the starting position over tiles that are not Wall; the corridors of
\* the BSP builder leave no room and no corridor cut off.
C25_FloorReachable ==
    (builder.kind = "bsp_dungeon" /\ builder.at = "done") =>
       \A i \in DOMAIN builder.map.tiles :
          builder.map.tiles[i] = Floor =>
             i \in Flood(builder.map, {StartIdx(builder)})

\* C26: the map a generator returns has exactly one DownStairs tile, which
\* can be walked to from the starting position; the BSP builder puts it at
\* the centre of the last room.
C26_OneReachableStairs ==
    (builder.kind = "bsp_dungeon" /\ builder.at = "done") =>
       LET c == center(builder.rooms[Len(builder.rooms)])
       IN /\ StairsTiles(builder.map) = {(c.y * builder.map.width) + c.x}
          /\ StairsTiles(builder.map) \subseteq Flood(builder.map, {StartIdx(builder)})

\* C40: build_map of a generator ends normally whatever the draws: the BSP
\* builder also when none of its 240 candidates was accepted (here: the BSP
\* dungeon builder never panics).
C40_BuildTerminates ==
    builder.kind = "bsp_dungeon" => builder.at # "panicked"

\* C33: a request to pick up with no item on the player's tile, or to descend
\* off the stairs, only appends its message to the game log: the World and
\* the map are as before and the run state stays AwaitingInput, so that no
\* turn passes.
C33_FailedRequestKeepsTurn ==
    [][(/\ pc = "tick"
        /\ runstate.name = "AwaitingInput"
        /\ gamelog' \in {<<"There is nothing here to pick up.">>,
                         <<"There is no way down from here.">>}) =>
          /\ runstate' = RS("AwaitingInput")
          /\ ecs' = ecs
          /\ map' = map]_vars

C36_NoTwoBlockersOnATile ==
    pc = "tick" =>
        \A x, y \in ecs.blocks_tile \cap DOMAIN ecs.position :
            ecs.position[x] = ecs.position[y] => x = y

\* C32: the entity that carries the Map copy exists only inside save_game
\* and load_game.  No state between two ticks has a SerializationHelper; the
\* tick that saves leaves the World and the Map as they were; after the tick
\* that loads, every entity of before is gone and the tile_content list of
\* every tile is empty.
C32_SnapshotEntityOnlyInside ==
    /\ [](ecs.serialization_helper = Empty)
    /\ [][(pc = "tick" /\ runstate.name = "SaveGame") =>
             (ecs' = ecs /\ map' = map)]_vars
    /\ [][(pc = "tick" /\ runstate.name = "MainMenu"
                       /\ runstate'.name = "AwaitingInput") =>
             /\ ecs.entities \cap ecs'.entities = {}
             /\ ecs'.serialization_helper = Empty
             /\ \A idx \in Idxs : map'.tile_content[idx] = <<>>]_vars

\* A saved game has been loaded: the goblin and the player are back, as new
\* entities, and the file is deleted
C32_Witness ==
    /\ pc = "tick"
    /\ runstate.name = "AwaitingInput"
    /\ savegame = None
    /\ player_entity = ThePlayer + Generation
    /\ {ThePlayer + Generation, Goblin + Generation} \subseteq ecs.entities

\* The component types of the World
ComponentTypes == (DOMAIN EmptyWorld) \ {"entities", "killed"}

\* The entity that load_game creates for the saved entity x
Reloaded(x) ==
    (x % Generation)
        + Generation * (generation_of(ecs.entities \cup {player_entity}) + 1)

\* C31: save_game followed by load_game restores the World component for
\* component: the tick that loads leaves an entity for every entity of the
\* World that was saved, with the same component types and the same value for
\* each of them; the Map equals the saved Map in every field but
\* tile_content; the Entity and Point resources denote the loaded entity
\* with the Player tag and its Position, when the saved World has one.
C31_RoundTrip ==
    [][(pc = "tick" /\ runstate.name = "MainMenu"
                    /\ runstate'.name = "AwaitingInput") =>
          LET saved == TheSome(savegame)
              f == [x \in saved.ecs.entities |-> Reloaded(x)]
          IN /\ ecs'.entities = {f[x] : x \in saved.ecs.entities}
             /\ \A ty \in ComponentTypes :
                   IF ty \in TagTypes
                   THEN ecs'[ty] = {f[x] : x \in saved.ecs[ty]}
                   ELSE /\ DOMAIN ecs'[ty] = {f[x] : x \in DOMAIN saved.ecs[ty]}
                        /\ \A x \in DOMAIN saved.ecs[ty] :
                              ecs'[ty][f[x]] = convert_from(ty, saved.ecs[ty][x], f)
             /\ serialize_map(map') = serialize_map(saved.map)
             /\ saved.ecs.player # {} =>
                   /\ player_entity' \in ecs'.player
                   /\ player_pt' = ecs'.position[player_entity']]_vars

\* C38: in every state the Point resource equals the Position of the entity
\* with the Player tag; the two change only in a tick that handles input
\* (player movement), changes the level, or loads or starts a game in the
\* main menu.
C38_PointIsPlayerPosition ==
    /\ [](\A p \in ecs.player \cap DOMAIN ecs.position :
             player_pt = Pt(ecs.position[p].x, ecs.position[p].y))
    /\ [][(\/ player_pt' # player_pt
           \/ \E p \in ecs.player \cap ecs'.player :
                 ecs'.position[p] # ecs.position[p]) =>
             /\ pc = "tick"
             /\ runstate.name \in {"AwaitingInput", "NextLevel", "MainMenu"}]_vars

\* The player has walked off the starting tile, and the game was saved and
\* loaded since
C38_Witness ==
    /\ player_entity = ThePlayer + Generation
    /\ player_entity \in ecs.player
    /\ player_pt # StartingPosition
    /\ ecs.position[player_entity] = player_pt
    /\ map.depth = 1

\* The entities with CombatStats that stand on tile (x, y)
FightersOn(e, x, y) ==
    {t \in DOMAIN e.combat_stats \cap DOMAIN e.position :
        e.position[t].x = x /\ e.position[t].y = y}

\* What is expected of try_move_player for the key `key` and the player p
MoveAsSaid(key, p) ==
    LET r == try_move_player(KeyDelta(key)[1], KeyDelta(key)[2], ecs, map, player_pt)
        x == ecs.position[p].x + KeyDelta(key)[1]
        y == ecs.position[p].y + KeyDelta(key)[2]
        stays == /\ r.ecs.position = ecs.position
                 /\ r.player_pt = player_pt
                 /\ r.ecs.viewshed = ecs.viewshed
                 /\ r.ecs.entity_moved = ecs.entity_moved
    IN IF ~InMap(x, y) THEN r.ecs = ecs /\ r.player_pt = player_pt
       ELSE IF FightersOn(ecs, x, y) # {}
       THEN /\ stays
            /\ \E t \in FightersOn(ecs, x, y) :
                  r.ecs = [ecs EXCEPT !.wants_to_melee = Put(@, p, [target |-> t])]
       ELSE IF xy_idx(x, y) \notin map.blocked
       THEN r.ecs = move_player(ecs, p, x, y) /\ r.player_pt = Pt(x, y)
       ELSE r.ecs = ecs /\ r.player_pt = player_pt

\* C39: the player's Position is always a tile of the map that is not a
\* Wall.  When input is awaited, try_move_player does nothing for a
\* destination outside the map; for a destination on which an entity with
\* CombatStats stands it inserts one WantsToMelee for the player and leaves
\* Position, Point, the dirty flag and EntityMoved alone; otherwise it moves
\* the player if the destination is not flagged blocked and changes nothing
\* if it is.
C39_PlayerOnOpenTile ==
    /\ \A p \in ecs.player \cap DOMAIN ecs.position :
          /\ InMap(ecs.position[p].x, ecs.position[p].y)
          /\ map.tiles[PtIdx(ecs.position[p])] # Wall
    /\ (pc = "tick" /\ runstate.name = "AwaitingInput") =>
          \A p \in PlayerJoin(ecs) : \A key \in MoveKeys : MoveAsSaid(key, p)

====
